---- MODULE Spec2Model ----
(***************************************************************************)
(* Model of the live-room monitor plugin:                                  *)
(*   - LiveDanmaku (src/core/live_danmaku.py): the websocket client, its   *)
(*     connect / disconnect coroutines, heartbeat loop and receive loop;   *)
(*   - StatsBuffer / StatsDB (src/storage/stats_db.py): buffered counters  *)
(*     and their flush into the store;                                     *)
(*   - RoomMonitor._handle_live_on (src/core/room_monitor.py): the         *)
(*     live-start handler.                                                 *)
(* Every action is one scheduling step of one asyncio task: the code from  *)
(* one suspension point (await) to the next.                               *)
(***************************************************************************)
EXTENDS Integers, Sequences, FiniteSets, TLC

\* ------------------------------------------------------------------ bounds
\* connect() invocations on one client (the first by its owner, the others by
\* the receive loop's reconnect)
MaxConn == 3

\* incr_danmu() calls, and distinct user ids sending chat messages
MaxIncr == 2
NumUsers == 2

\* commits that fail
MaxFail == 1

ConnIds == 1..MaxConn

\* user id 0 is the anonymous sender: incr_danmu() keeps no per-user count for it
Uids == 0..NumUsers

\* the tasks that call StatsBuffer.flush(): the periodic _flush_loop and a read
\* path (get_room_stats, a ranking query, ...)
Flushers == {"timer", "read"}

\* the callers of flush(): these, and StatsBuffer.stop()
FlushCallers == Flushers \cup {"stop"}

\* LIVE events dispatched to one RoomMonitor, and seconds the clock advances
MaxLive == 2
MaxTick == 2

LiveIds == 1..MaxLive

\* PREPARING events dispatched to one RoomMonitor
MaxOff == 2

OffIds == 1..MaxOff

\* RoomMonitor.RECONNECT_THRESHOLD
RECONNECT_THRESHOLD == 60

\* frames in one received binary message
MaxFrames == 2

\* compressed frames around one message
MaxNest == 5

\* the total length a received header declares
MaxDeclared == 20

\* handlers registered for one event name, and dispatch() calls
MaxHandlers == 2
MaxDispatch == 2

\* bytes of a payload handed to the encoder
MaxBody == 3

\* the limit of a ranking query
MaxLimit == 3

\* restarts of the process
MaxRestart == 1

\* blind-box events of one session
MaxBox == 3

\* binary messages received on the socket
MaxRecv == 1

\* SEND_GIFT events handled
MaxGift == 2

\* add-monitor requests, and the rooms they name
MaxAdd == 3
NumRooms == 2

\* the packet header: struct format ">IHHII"
HEADER_LEN == 16

\* Operation
HEARTBEAT == 2
USER_AUTHENTICATION == 7
HEARTBEAT_REPLY == 3
MESSAGE == 5
CONNECT_SUCCESS == 8

\* --------------------------------------------------------------- variables
VARIABLES
    \* LiveDanmaku fields
    status,          \* self._status: 0 idle, 1 connecting, 2 authenticated, 3 disconnecting
    auth_event,      \* self._auth_event is set
    ws,              \* self._ws: id of the socket held, 0 = None
    session,         \* self._session: id of the HTTP session held, 0 = None
    heartbeat_task,  \* self._heartbeat_task: id of the task held, 0 = None
    \* connect() invocations, numbered in call order
    nextConn,        \* number of the next connect() invocation
    cpc,             \* position of invocation c
    corigin,         \* 0: called by the owner, k: called by receive loop k
    cfail,           \* what failed in invocation c: "", "http" or "sock"
    hs,              \* handshake steps invocation c has performed
    \* sockets and sessions; the ones opened by invocation c carry the id c
    sock,            \* "none", "open", "dead" (peer closed / errored), "closed"
    sockSess,        \* the session a socket was opened through
    sess,            \* "none", "open", "closed"
    authSent,        \* an auth frame was written to the socket
    acked,           \* the client has received the connect-ack of the socket
    \* tasks created by invocation c
    rl,              \* receive loop
    rlSock,          \* the socket the receive loop iterates
    hb,              \* heartbeat loop
    \* the owner of the client (RoomMonitor): "new", "connecting" (its connect()
    \* call is suspended), "connected" (the call returned), "failed" (it raised),
    \* "removed" (it has called disconnect())
    owner,
    \* the disconnect() invocation: position, and status / socket / heartbeat
    \* task it found when called
    dpc, dFrom, dWs, dHb,
    \* observations
    hbLast,          \* <<socket, acked at the time>> of the last heartbeat frame sent
    discCool,        \* receive loops that were cooling down when disconnect() was called
    discConn,        \* number of the next connect() invocation when disconnect() was called
    \* StatsBuffer fields for one room; a dict is the sequence of its entries
    \* [k |-> key, v |-> value] in insertion order
    room_danmu_count,   \* key: the room, value: count
    user_danmu_count,   \* key: uid, value: count
    room_danmu_texts,   \* key: the room, value: number of texts in the list
    room_danmu_times,   \* key: the room, value: number of samples in the list
    \* StatsDB tables, for that room
    db_danmu_count,     \* room_stats.danmu_count
    db_user_danmu,      \* user_danmu.count by uid
    db_texts,           \* number of danmu_texts rows
    db_times,           \* number of time_stats rows of type 'danmu'
    \* the flush() invocation of each flusher: position, and the dict iterator
    \* of flush_buffer() (loop number, position, size the dict had at its start)
    fpc, fphase, fidx, fused,
    issued,             \* incr_danmu() calls so far, by uid
    \* the read path (get_room_stats): incr_danmu() calls made before it was
    \* invoked, and the danmu_count it returned (NoValue: none yet, or it raised)
    rseen, rval,
    committed,          \* the tables as of the last successful commit
    n_fail,             \* commits that have failed
    \* RoomMonitor fields
    is_live,              \* _is_live
    last_live_push_time,  \* _last_live_push_time, NoTime for None
    lock_held,            \* _live_event_lock is locked
    lock_waiters,         \* the tasks waiting for it, first come first served
    \* StatsDB live_status row of the room
    db_live_status, db_live_end_time,
    clock,                \* int(time.time())
    \* _handle_live_on tasks: position, whether the event carries a live_time,
    \* the number of incr_danmu() calls made before the event was dispatched,
    \* and the locals current_status, now, last_end
    lpc, levt, lseen, lstat, lnow, lend,
    \* calls made: reset_room_stats, create_session, on_live_start
    n_reset, n_create, n_notify,
    \* _handle_live_off tasks: position and the locals current_status, end_time
    opc, ostat, oend,
    \* calls made: end_session, on_live_end
    n_end, n_live_end,
    \* _parse_packet(data) on one binary message
    inbuf,       \* data
    inexpect,    \* the events of the complete frames data was built from
    incut,       \* the trailing partial frame of data: "none", "header", "body"
    inchain,     \* the versions of the compressed frames wrapped around data's message
    parsed,      \* how the call ended and the events it dispatched
    \* LiveDanmaku.on() / dispatch()
    handlers,    \* self._handlers: event name -> list of handlers
    tasks,       \* the tasks dispatch() created, in creation order
    dispatched,  \* the dispatch() calls made: event and handlers registered then
    dloop,       \* the receive loop that calls dispatch(): "recv" or "ended"
    \* _send_packet(operation, data) and the decoding of what it sent
    sent_op,     \* operation.value
    sent_body,   \* data.encode("utf-8")
    wire,        \* the bytes given to send_bytes(), <<>> before the call
    frames,      \* the frames the decoder's loop finds in wire
    \* a ranking query on the store
    rk_rows,     \* the rows of the metric's table: room_id, uid, value
    rk_room,     \* room_id of the query
    rk_limit,    \* limit of the query
    rk_result,   \* the list returned
    \* process start and RoomMonitor._init_live_status()
    ipc,         \* where _init_live_status() is
    istat,       \* live_status the service reported to it
    n_restart,   \* process starts so far
    \* StatsBuffer.incr_box() and the box-profit series of the room
    room_box_profit,          \* buffer: profit added since the last _clear()
    room_box_profit_records,  \* buffer: the values appended since the last _clear()
    db_box_profit_records,    \* store: the profit column of box_profit_records, by id
    box_deltas,               \* the profit of every incr_box() call of the session
    room_box_count,           \* buffer: boxes of the room since the last _clear()
    user_box_count,           \* buffer: boxes by uid
    user_box_profit,          \* buffer: box profit by uid
    room_gift_profit,         \* buffer: gift revenue of the room, in thousandths
    user_gift_profit,         \* buffer: gift revenue by uid, in thousandths
    gift_event,               \* the payload of the last SEND_GIFT event handled, and its number
    \* the receive loop decoding messages and dispatching their events
    rx_sent,     \* the events of the frames the service sent, in frame order
    started,     \* the tasks that have started running, in start order
    \* StatsDB.close()
    close_pc,    \* where the close() call is
    \* the plugin's _add_monitor() / _remove_monitor()
    monitors,    \* self.monitors: uid -> the RoomMonitor registered, 0 for none
    apc,         \* where each _add_monitor() call is
    auid,        \* config.uid of each call
    mclient      \* the client of the RoomMonitor each call created

clientVars == <<status, auth_event, ws, session, heartbeat_task>>
callVars == <<nextConn, cpc, corigin, cfail, hs>>
netVars == <<sock, sockSess, sess, authSent, acked>>
taskVars == <<rl, rlSock, hb>>
discVars == <<dpc, dFrom, dWs, dHb>>
obsVars == <<hbLast, discCool, discConn>>

wsVars == <<clientVars, callVars, netVars, taskVars, owner, discVars, obsVars>>

bufVars == <<room_danmu_count, user_danmu_count, room_danmu_texts, room_danmu_times>>
dbVars == <<db_danmu_count, db_user_danmu, db_texts, db_times>>
flushVars == <<fpc, fphase, fidx, fused>>
readVars == <<rseen, rval>>
txnVars == <<committed, n_fail>>
statsNoTxn == <<bufVars, dbVars, flushVars, issued, readVars>>
statsVars == <<statsNoTxn, txnVars>>

monVars == <<is_live, last_live_push_time, lock_held, lock_waiters>>
liveDbVars == <<db_live_status, db_live_end_time>>
handlerVars == <<lpc, levt, lseen, lstat, lnow, lend>>
callCountVars == <<n_reset, n_create, n_notify>>
liveVars == <<monVars, liveDbVars, clock, handlerVars, callCountVars>>

offVars == <<opc, ostat, oend, n_end, n_live_end>>

codecVars == <<inbuf, inexpect, incut, inchain, parsed>>
dispatchVars == <<handlers, tasks, dispatched, dloop>>
addVars == <<monitors, apc, auid, mclient>>
rtVars == <<sent_op, sent_body, wire, frames>>
rankVars == <<rk_rows, rk_room, rk_limit, rk_result>>
restartVars == <<ipc, istat, n_restart>>
boxVars == <<room_box_profit, room_box_profit_records, db_box_profit_records, box_deltas,
             room_box_count, user_box_count, user_box_profit, room_gift_profit,
             user_gift_profit, gift_event>>
orderVars == <<rx_sent, started>>
closeVars == <<close_pc>>

\* what the actions of one part leave alone of the other parts
otherVars == <<statsVars, liveVars, offVars, codecVars, dispatchVars, addVars,
    rtVars,
    rankVars,
    restartVars,
    boxVars,
    orderVars,
    closeVars>>
outsideStats == <<wsVars, liveVars, offVars, codecVars, dispatchVars, addVars,
    rtVars,
    rankVars,
    restartVars,
    boxVars,
    orderVars,
    closeVars>>
outsideLive == <<wsVars, offVars, codecVars, dispatchVars, addVars,
    rtVars,
    rankVars,
    restartVars,
    boxVars,
    orderVars,
    closeVars>>
outsideOff == <<wsVars, statsNoTxn, lock_held, lock_waiters, last_live_push_time,
                handlerVars, callCountVars, codecVars, dispatchVars, addVars,
    rtVars,
    rankVars,
    restartVars,
    boxVars,
    orderVars,
    closeVars>>
outsideCodec == <<wsVars, statsVars, liveVars, offVars, dispatchVars, addVars,
    rtVars,
    rankVars,
    restartVars,
    boxVars,
    orderVars,
    closeVars>>
outsideDispatch == <<wsVars, statsVars, liveVars, offVars, codecVars, addVars,
    rtVars,
    rankVars,
    restartVars,
    boxVars,
    orderVars,
    closeVars>>
outsideAdd == <<wsVars, statsVars, liveVars, offVars, codecVars, dispatchVars,
    rtVars,
    rankVars,
    restartVars,
    boxVars,
    orderVars,
    closeVars>>
outsideRt == <<wsVars, statsVars, liveVars, offVars, codecVars, dispatchVars, addVars,
    rankVars,
    restartVars,
    boxVars,
    orderVars,
    closeVars>>
outsideRank == <<wsVars, statsVars, liveVars, offVars, codecVars, dispatchVars, addVars,
    rtVars,
    restartVars,
    boxVars,
    orderVars,
    closeVars>>
outsideRestart == <<wsVars, statsNoTxn, offVars, codecVars, dispatchVars, addVars, rtVars,
    rankVars,
    boxVars,
    orderVars,
    closeVars>>
outsideBox == <<wsVars, statsVars, liveVars, offVars, codecVars, dispatchVars, addVars, rtVars,
    rankVars, restartVars,
    orderVars,
    closeVars>>
outsideOrder == <<wsVars, statsVars, liveVars, offVars, codecVars, addVars, rtVars,
    rankVars, restartVars, boxVars,
    closeVars>>

\* what the actions of close() leave alone: the parts other than the statistics
outsideClose == <<wsVars, liveVars, offVars, codecVars, dispatchVars, addVars,
    rtVars,
    rankVars,
    restartVars,
    boxVars,
    orderVars>>

vars == <<wsVars, statsVars, liveVars, offVars, codecVars, dispatchVars, addVars,
    rtVars,
    rankVars,
    restartVars,
    boxVars,
    orderVars,
    closeVars>>

\* ------------------------------------------------------ LiveDanmaku: tests
\* connect(): "if self._status != 0: return"
ConnectSkips(st) == st # 0

\* disconnect(): "if self._status == 0: return"
DisconnectSkips(st) == st = 0

\* (mutant) the heartbeat loop never looks at the status
HbLoopCond_Always(st) == TRUE

\* (mutant) the heartbeat loop runs whenever the client is not idle
HbLoopCond_NotIdle(st) == st # 0

\* _heartbeat_loop(): "while self._status == 2"
HbLoopCond(st) == st = 2

\* (mutant) the finally block never reconnects
RecvFinallyReconnects_Never(st) == FALSE

\* (mutant) the finally block also reconnects while disconnecting
RecvFinallyReconnects_Disconnecting(st) == st \in {2, 3}

\* _receive_loop() finally: "if self._status == 2"
RecvFinallyReconnects(st) == st = 2

HbAlive == {"created", "wait", "sleep"}

FullHandshake == <<"room", "conf", "host", "ws", "auth">>

\* ------------------------------------------------------------------- Init
InitWS ==
    /\ status = 0
    /\ auth_event = FALSE
    /\ ws = 0
    /\ session = 0
    /\ heartbeat_task = 0
    /\ nextConn = 1
    /\ cpc = [c \in ConnIds |-> "none"]
    /\ corigin = [c \in ConnIds |-> 0]
    /\ cfail = [c \in ConnIds |-> ""]
    /\ hs = [c \in ConnIds |-> <<>>]
    /\ sock = [c \in ConnIds |-> "none"]
    /\ sockSess = [c \in ConnIds |-> 0]
    /\ sess = [c \in ConnIds |-> "none"]
    /\ authSent = [c \in ConnIds |-> FALSE]
    /\ acked = [c \in ConnIds |-> FALSE]
    /\ rl = [c \in ConnIds |-> "none"]
    /\ rlSock = [c \in ConnIds |-> 0]
    /\ hb = [c \in ConnIds |-> "none"]
    /\ owner = "new"
    /\ dpc = "idle"
    /\ dFrom = 0
    /\ dWs = 0
    /\ dHb = 0
    /\ hbLast = <<>>
    /\ discCool = {}
    /\ discConn = 0

\* --------------------------------------------------- LiveDanmaku.connect()
\* connect() invocation c ends (st: "done" or "raised"): the receive loop that
\* awaits it ends the same way, or its owner resumes.
RlAfterConnect(c, st) ==
    IF corigin[c] # 0 THEN [rl EXCEPT ![corigin[c]] = st] ELSE rl

OwnerAfterConnect(c, st) ==
    IF corigin[c] = 0 THEN (IF st = "done" THEN "connected" ELSE "failed") ELSE owner

\* ClientSession.close(): the session and the sockets opened through it close.
SockAfterSessionClose(sid) ==
    [s \in ConnIds |-> IF sockSess[s] = sid /\ sock[s] = "open" THEN "closed" ELSE sock[s]]

\* Entry of connect() up to its first await, called by the owner (origin 0) or
\* by receive loop `origin`.
ConnectCall(origin) ==
    IF ConnectSkips(status)
      THEN /\ rl' = (IF origin # 0 THEN [rl EXCEPT ![origin] = "done"] ELSE rl)
           /\ owner' = (IF origin = 0 THEN "connected" ELSE owner)
           /\ UNCHANGED <<nextConn, corigin, cpc, status>>
      ELSE /\ nextConn <= MaxConn
           /\ nextConn' = nextConn + 1
           /\ corigin' = [corigin EXCEPT ![nextConn] = origin]
           /\ cpc' = [cpc EXCEPT ![nextConn] = "room"]
           /\ status' = 1
           /\ rl' = (IF origin # 0 THEN [rl EXCEPT ![origin] = "connecting"] ELSE rl)
           /\ owner' = (IF origin = 0 THEN "connecting" ELSE owner)

\* RoomMonitor.connect(): the owner constructs the client and calls connect() once
OwnerConnect ==
    /\ owner = "new"
    /\ ConnectCall(0)
    /\ UNCHANGED <<auth_event, ws, session, heartbeat_task, cfail, hs, netVars,
                   rlSock, hb, discVars, obsVars, otherVars>>

\* get_room_play_info() returned
ConnectRoomInfo(c) ==
    /\ cpc[c] = "room"
    /\ cpc' = [cpc EXCEPT ![c] = "conf"]
    /\ hs' = [hs EXCEPT ![c] = Append(@, "room")]
    /\ UNCHANGED <<clientVars, nextConn, corigin, cfail, netVars, taskVars, owner,
                   discVars, obsVars, otherVars>>

\* get_chat_conf() returned a non-empty host list and a token; a host is chosen
\* and a new ClientSession is stored in self._session
ConnectChatConf(c) ==
    /\ cpc[c] = "conf"
    /\ cpc' = [cpc EXCEPT ![c] = "wsconn"]
    /\ hs' = [hs EXCEPT ![c] = @ \o <<"conf", "host">>]
    /\ session' = c
    /\ sess' = [sess EXCEPT ![c] = "open"]
    /\ UNCHANGED <<status, auth_event, ws, heartbeat_task, nextConn, corigin, cfail,
                   sock, sockSess, authSent, acked, taskVars, owner, discVars,
                   obsVars, otherVars>>

\* (mutant) the except branch forgets "self._status = 0"
ConnectExcept_NoReset(c, why) ==
    /\ cfail' = [cfail EXCEPT ![c] = why]
    /\ status' = status
    /\ IF session # 0
         THEN /\ cpc' = [cpc EXCEPT ![c] = "failclose"]
              /\ sess' = [sess EXCEPT ![session] = "closed"]
              /\ sock' = SockAfterSessionClose(session)
              /\ UNCHANGED <<rl, owner>>
         ELSE /\ cpc' = [cpc EXCEPT ![c] = "raised"]
              /\ rl' = RlAfterConnect(c, "raised")
              /\ owner' = OwnerAfterConnect(c, "raised")
              /\ UNCHANGED <<sess, sock>>

\* The except branch of connect(): status back to 0, the session held is closed
\* (an await) and the exception is raised again.
ConnectExcept(c, why) ==
    /\ cfail' = [cfail EXCEPT ![c] = why]
    /\ status' = 0
    /\ IF session # 0
         THEN /\ cpc' = [cpc EXCEPT ![c] = "failclose"]
              /\ sess' = [sess EXCEPT ![session] = "closed"]
              /\ sock' = SockAfterSessionClose(session)
              /\ UNCHANGED <<rl, owner>>
         ELSE /\ cpc' = [cpc EXCEPT ![c] = "raised"]
              /\ rl' = RlAfterConnect(c, "raised")
              /\ owner' = OwnerAfterConnect(c, "raised")
              /\ UNCHANGED <<sess, sock>>

\* resolving the room or fetching the chat configuration failed, or the host
\* list is empty
ConnectHttpFail(c) ==
    /\ cpc[c] \in {"room", "conf"}
    /\ ConnectExcept(c, "http")
    /\ UNCHANGED <<auth_event, ws, session, heartbeat_task, nextConn, corigin, hs,
                   sockSess, authSent, acked, rlSock, hb, discVars, obsVars, otherVars>>

\* ws_connect() or the auth frame write failed
ConnectSockFail(c) ==
    /\ cpc[c] \in {"wsconn", "auth"}
    /\ ConnectExcept(c, "sock")
    /\ UNCHANGED <<auth_event, ws, session, heartbeat_task, nextConn, corigin, hs,
                   sockSess, authSent, acked, rlSock, hb, discVars, obsVars, otherVars>>

\* "await self._session.close()" of the except branch returned: "raise e"
ConnectRaise(c) ==
    /\ cpc[c] = "failclose"
    /\ cpc' = [cpc EXCEPT ![c] = "raised"]
    /\ rl' = RlAfterConnect(c, "raised")
    /\ owner' = OwnerAfterConnect(c, "raised")
    /\ UNCHANGED <<clientVars, nextConn, corigin, cfail, hs, netVars, rlSock, hb,
                   discVars, obsVars, otherVars>>

\* ws_connect() returned a socket
ConnectWs(c) ==
    /\ cpc[c] = "wsconn"
    /\ session # 0
    /\ sess[session] = "open"
    /\ cpc' = [cpc EXCEPT ![c] = "auth"]
    /\ hs' = [hs EXCEPT ![c] = Append(@, "ws")]
    /\ ws' = c
    /\ sock' = [sock EXCEPT ![c] = "open"]
    /\ sockSess' = [sockSess EXCEPT ![c] = session]
    /\ UNCHANGED <<status, auth_event, session, heartbeat_task, nextConn, corigin,
                   cfail, sess, authSent, acked, taskVars, owner, discVars, obsVars,
                   otherVars>>

\* _send_auth() returned; the heartbeat task, then the receive task are created
\* and connect() returns
ConnectAuth(c) ==
    /\ cpc[c] = "auth"
    /\ ws # 0
    /\ sock[ws] = "open"
    /\ cpc' = [cpc EXCEPT ![c] = "done"]
    /\ hs' = [hs EXCEPT ![c] = Append(@, "auth")]
    /\ authSent' = [authSent EXCEPT ![ws] = TRUE]
    /\ heartbeat_task' = c
    /\ hb' = [hb EXCEPT ![c] = "created"]
    /\ rl' = [RlAfterConnect(c, "done") EXCEPT ![c] = "created"]
    /\ owner' = OwnerAfterConnect(c, "done")
    /\ UNCHANGED <<status, auth_event, ws, session, nextConn, corigin, cfail, sock,
                   sockSess, sess, acked, rlSock, discVars, obsVars, otherVars>>

\* ------------------------------------------- LiveDanmaku._heartbeat_loop()
\* One turn of "while self._status == 2: send heartbeat; sleep(30)"
HbTurn(k) ==
    IF HbLoopCond(status)
      THEN /\ hb' = [hb EXCEPT ![k] = "sleep"]
           /\ hbLast' = <<ws, acked[ws]>>
      ELSE /\ hb' = [hb EXCEPT ![k] = "done"]
           /\ hbLast' = hbLast

\* first step of the task: "await self._auth_event.wait()"
HbFirst(k) ==
    /\ hb[k] = "created"
    /\ IF auth_event
         THEN HbTurn(k)
         ELSE /\ hb' = [hb EXCEPT ![k] = "wait"]
              /\ hbLast' = hbLast
    /\ UNCHANGED <<clientVars, callVars, netVars, rl, rlSock, owner, discVars,
                   discCool, discConn, otherVars>>

\* the task resumes: the event it waits for is set, or its sleep is over
HbWake(k) ==
    /\ \/ hb[k] = "wait" /\ auth_event
       \/ hb[k] = "sleep"
    /\ HbTurn(k)
    /\ UNCHANGED <<clientVars, callVars, netVars, rl, rlSock, owner, discVars,
                   discCool, discConn, otherVars>>

\* --------------------------------------------- LiveDanmaku._receive_loop()
\* The finally block: reconnect only if the status is still 2.
RecvFinally(k) ==
    IF RecvFinallyReconnects(status)
      THEN /\ status' = 0
           /\ rl' = [rl EXCEPT ![k] = "cooldown"]
      ELSE /\ status' = status
           /\ rl' = [rl EXCEPT ![k] = "done"]

\* first step of the task (it was created after the heartbeat task, so it runs
\* after that task's first step): "async for msg in self._ws"
RlStart(k) ==
    /\ rl[k] = "created"
    /\ hb[k] # "created"
    /\ rlSock' = [rlSock EXCEPT ![k] = ws]
    /\ rl' = [rl EXCEPT ![k] = "recv"]
    /\ UNCHANGED <<clientVars, callVars, netVars, hb, owner, discVars, obsVars,
                   otherVars>>

\* _parse_packet() on a CONNECT_SUCCESS frame (the server sends one per auth frame)
RecvAck(k) ==
    /\ rl[k] = "recv"
    /\ sock[rlSock[k]] = "open"
    /\ authSent[rlSock[k]]
    /\ ~acked[rlSock[k]]
    /\ status' = 2
    /\ auth_event' = TRUE
    /\ acked' = [acked EXCEPT ![rlSock[k]] = TRUE]
    /\ UNCHANGED <<ws, session, heartbeat_task, callVars, sock, sockSess, sess,
                   authSent, taskVars, owner, discVars, obsVars, otherVars>>

\* the peer closes the socket or the socket errors: the loop ends
RecvUnexpectedClose(k) ==
    /\ rl[k] = "recv"
    /\ sock[rlSock[k]] = "open"
    /\ sock' = [sock EXCEPT ![rlSock[k]] = "dead"]
    /\ RecvFinally(k)
    /\ UNCHANGED <<auth_event, ws, session, heartbeat_task, callVars, sockSess, sess,
                   authSent, acked, rlSock, hb, owner, discVars, obsVars, otherVars>>

\* the socket was closed by this client (disconnect(), or a session close): the
\* loop ends
RecvLocalClose(k) ==
    /\ rl[k] = "recv"
    /\ sock[rlSock[k]] # "open"
    /\ RecvFinally(k)
    /\ UNCHANGED <<auth_event, ws, session, heartbeat_task, callVars, netVars,
                   rlSock, hb, owner, discVars, obsVars, otherVars>>

\* "await asyncio.sleep(5)" is over: "await self.connect()"
RlReconnect(k) ==
    /\ rl[k] = "cooldown"
    /\ ConnectCall(k)
    /\ UNCHANGED <<auth_event, ws, session, heartbeat_task, cfail, hs, netVars,
                   rlSock, hb, discVars, obsVars, otherVars>>

\* ------------------------------------------------ LiveDanmaku.disconnect()
\* disconnect() from "if self._session" on, up to its next await; st is the
\* status the step leaves when it suspends
DiscFromSession(st) ==
    IF session # 0
      THEN /\ sess' = [sess EXCEPT ![session] = "closed"]
           /\ sock' = SockAfterSessionClose(session)
           /\ dpc' = "sess_close"
           /\ status' = st
      ELSE /\ dpc' = "done"
           /\ status' = 0
           /\ UNCHANGED <<sess, sock>>

\* disconnect() from "if self._ws" on, up to its next await
DiscFromWs(st) ==
    IF ws # 0
      THEN /\ sock' = [sock EXCEPT ![ws] = IF @ = "open" THEN "closed" ELSE @]
           /\ dpc' = "ws_close"
           /\ status' = st
           /\ sess' = sess
      ELSE DiscFromSession(st)

\* RoomMonitor.disconnect(): the owner, once its connect() call has returned,
\* calls disconnect() (it then drops the client)
DisconnectCall ==
    /\ owner = "connected"
    /\ owner' = "removed"
    /\ discCool' = {k \in ConnIds : rl[k] = "cooldown"}
    /\ discConn' = nextConn
    /\ IF DisconnectSkips(status)
         THEN UNCHANGED <<status, hb, discVars, sock, sess>>
         ELSE /\ dFrom' = status
              /\ dWs' = ws
              /\ dHb' = heartbeat_task
              /\ IF heartbeat_task # 0 /\ hb[heartbeat_task] \in HbAlive
                   THEN \* cancel() and "await self._heartbeat_task"
                        /\ hb' = [hb EXCEPT ![heartbeat_task] = "cancelled"]
                        /\ status' = 3
                        /\ dpc' = "await_hb"
                        /\ UNCHANGED <<sock, sess>>
                   ELSE \* no task, or a finished one: no suspension
                        /\ hb' = hb
                        /\ DiscFromWs(3)
    /\ UNCHANGED <<auth_event, ws, session, heartbeat_task, callVars, sockSess,
                   authSent, acked, rl, rlSock, hbLast, otherVars>>

\* the cancelled heartbeat task has ended; "await self._ws.close()"
DisconnectAwaitHb ==
    /\ dpc = "await_hb"
    /\ DiscFromWs(status)
    /\ UNCHANGED <<auth_event, ws, session, heartbeat_task, callVars, sockSess,
                   authSent, acked, taskVars, owner, dFrom, dWs, dHb, obsVars,
                   otherVars>>

\* ws.close() returned (it waits for the reader of the socket to return);
\* "await self._session.close()"
DisconnectCloseSession ==
    /\ dpc = "ws_close"
    /\ \A k \in ConnIds : rl[k] = "recv" => rlSock[k] # ws
    /\ DiscFromSession(status)
    /\ UNCHANGED <<auth_event, ws, session, heartbeat_task, callVars, sockSess,
                   authSent, acked, taskVars, owner, dFrom, dWs, dHb, obsVars,
                   otherVars>>

\* session.close() returned: "self._status = 0"
DisconnectFinish ==
    /\ dpc = "sess_close"
    /\ dpc' = "done"
    /\ status' = 0
    /\ UNCHANGED <<auth_event, ws, session, heartbeat_task, callVars, netVars,
                   taskVars, owner, dFrom, dWs, dHb, obsVars, otherVars>>

\* ============================================================ StatsBuffer
TheRoom == "room"

NoValue == 0 - 1

\* the content of the room's tables
Tables(d, u, t, m) == [danmu |-> d, user |-> u, texts |-> t, times |-> m]

\* "await self._conn.commit()" succeeds: what the connection has written so
\* far, by any task, is committed
CommitAll ==
    /\ committed' = Tables(db_danmu_count', db_user_danmu', db_texts', db_times')
    /\ UNCHANGED n_fail

InitStats ==
    /\ room_danmu_count = <<>>
    /\ user_danmu_count = <<>>
    /\ room_danmu_texts = <<>>
    /\ room_danmu_times = <<>>
    /\ db_danmu_count = 0
    /\ db_user_danmu = [u \in 1..NumUsers |-> 0]
    /\ db_texts = 0
    /\ db_times = 0
    /\ fpc = [f \in FlushCallers |-> "idle"]
    /\ fphase = [f \in FlushCallers |-> 0]
    /\ fidx = [f \in FlushCallers |-> 0]
    /\ fused = [f \in FlushCallers |-> 0]
    /\ issued = [u \in Uids |-> 0]
    /\ rseen = 0
    /\ rval = NoValue
    /\ committed = Tables(0, [u \in 1..NumUsers |-> 0], 0, 0)
    /\ n_fail = 0
    /\ close_pc = "idle"

\* d[key] += delta on a defaultdict: a missing key is inserted at the end
DictAdd(d, key, delta) ==
    IF \E i \in 1..Len(d) : d[i].k = key
      THEN [i \in 1..Len(d) |-> IF d[i].k = key THEN [k |-> key, v |-> d[i].v + delta]
                                                 ELSE d[i]]
      ELSE Append(d, [k |-> key, v |-> delta])

\* sum of the values of a dict
RECURSIVE DictSum(_)
DictSum(d) == IF d = <<>> THEN 0 ELSE Head(d).v + DictSum(Tail(d))

RECURSIVE SumTo(_, _)
SumTo(f, n) == IF n = 0 THEN 0 ELSE f[n] + SumTo(f, n - 1)

\* incr_danmu() calls so far
TotalIssued == SumTo([i \in 1..(NumUsers + 1) |-> issued[i - 1]], NumUsers + 1)

\* StatsBuffer.incr_danmu(room_id, uid, content)
IncrDanmu(u) ==
    /\ SumTo([i \in 1..(NumUsers + 1) |-> issued[i - 1]], NumUsers + 1) < MaxIncr
    /\ issued' = [issued EXCEPT ![u] = @ + 1]
    /\ room_danmu_count' = DictAdd(room_danmu_count, TheRoom, 1)
    /\ user_danmu_count' = IF u # 0 THEN DictAdd(user_danmu_count, u, 1)
                                    ELSE user_danmu_count
    /\ room_danmu_texts' = DictAdd(room_danmu_texts, TheRoom, 1)
    /\ room_danmu_times' = DictAdd(room_danmu_times, TheRoom, 1)
    /\ UNCHANGED <<dbVars, flushVars, readVars, txnVars, outsideStats>>

\* the dicts flush_buffer() iterates that incr_danmu() fills, in its order; the
\* other dicts stay empty here and their loops run through without an await
NumLoops == 4

BufDict(p) ==
    CASE p = 1 -> room_danmu_count
      [] p = 2 -> user_danmu_count
      [] p = 3 -> room_danmu_texts
      [] p = 4 -> room_danmu_times

\* flush_buffer() from loop p, iterator position idx, up to its next await:
\* the next statement to execute ("stmt"), the end of the loops ("end"), or
\* "dictionary changed size during iteration" ("error")
RECURSIVE FlushAdvance(_, _, _)
FlushAdvance(p, idx, used) ==
    IF p > NumLoops
      THEN [kind |-> "end", p |-> 0, idx |-> 0, used |-> 0]
      ELSE IF Len(BufDict(p)) # used
        THEN [kind |-> "error", p |-> 0, idx |-> 0, used |-> 0]
        ELSE IF idx < Len(BufDict(p))
          THEN [kind |-> "stmt", p |-> p, idx |-> idx + 1, used |-> used]
          ELSE FlushAdvance(p + 1, 0, IF p < NumLoops THEN Len(BufDict(p + 1)) ELSE 0)

UpsertAdd_Replace(old, delta) == delta

\* "ON CONFLICT DO UPDATE SET count = count + excluded.count"
UpsertAdd(old, delta) == old + delta

\* the statement flush_buffer() executes for entry e of loop p
ExecStmt(p, e) ==
    /\ db_danmu_count' = IF p = 1 THEN UpsertAdd(db_danmu_count, e.v) ELSE db_danmu_count
    /\ db_user_danmu' = IF p = 2 THEN [db_user_danmu EXCEPT ![e.k] = UpsertAdd(@, e.v)]
                                 ELSE db_user_danmu
    /\ db_texts' = IF p = 3 THEN db_texts + e.v ELSE db_texts
    /\ db_times' = IF p = 4 THEN db_times + e.v ELSE db_times

\* no flush() call is in progress
NoFlushActive == \A f \in FlushCallers : fpc[f] \in {"idle", "dead"}

\* flush() is called: flush_buffer() enters "async with self._conn.cursor()"
FlushStart(f) ==
    /\ fpc[f] = "idle"
    /\ fpc' = [fpc EXCEPT ![f] = "cursor"]
    /\ IF f = "read"
         THEN rseen' = TotalIssued /\ rval' = NoValue
         ELSE UNCHANGED readVars
    /\ UNCHANGED <<bufVars, dbVars, fphase, fidx, fused, issued, txnVars, outsideStats>>

\* flush_buffer() resumes (the cursor is open, or the last statement is done)
\* and runs up to the next "await cursor.execute" / "executemany", or to
\* "await self._conn.commit()" (the await that closes the cursor is merged
\* into it), or to the exception
FlushStep(f) ==
    /\ fpc[f] \in {"cursor", "stmt"}
    /\ LET r == IF fpc[f] = "cursor"
                  THEN FlushAdvance(1, 0, Len(BufDict(1)))
                  ELSE FlushAdvance(fphase[f], fidx[f], fused[f])
       IN /\ fphase' = [fphase EXCEPT ![f] = r.p]
          /\ fidx' = [fidx EXCEPT ![f] = r.idx]
          /\ fused' = [fused EXCEPT ![f] = r.used]
          /\ IF r.kind = "stmt"
               THEN /\ ExecStmt(r.p, BufDict(r.p)[r.idx])
                    /\ fpc' = [fpc EXCEPT ![f] = "stmt"]
               ELSE /\ UNCHANGED dbVars
                    /\ fpc' = [fpc EXCEPT ![f] = IF r.kind = "end" THEN "commit" ELSE "error"]
    /\ UNCHANGED <<bufVars, issued, readVars, txnVars, outsideStats>>

\* commit() returned, flush_buffer() returns and flush() runs self._clear();
\* the read path then executes its SELECT
FlushCommit(f) ==
    /\ fpc[f] = "commit"
    /\ fpc' = [fpc EXCEPT ![f] = "idle"]
    /\ room_danmu_count' = <<>>
    /\ user_danmu_count' = <<>>
    /\ room_danmu_texts' = <<>>
    /\ room_danmu_times' = <<>>
    /\ IF f = "read"
         THEN rval' = db_danmu_count /\ UNCHANGED rseen
         ELSE UNCHANGED readVars
    /\ UNCHANGED <<dbVars, fphase, fidx, fused, issued, outsideStats>>
    /\ CommitAll

\* commit() raises: the transaction stays open ("database is locked") or the
\* store has rolled it back (disk full, I/O error); the exception leaves
\* flush_buffer() and flush() before self._clear()
FlushCommitFail(f) ==
    /\ fpc[f] = "commit"
    /\ n_fail < MaxFail
    /\ n_fail' = n_fail + 1
    /\ fpc' = [fpc EXCEPT ![f] = "error"]
    /\ \/ UNCHANGED dbVars
       \/ /\ db_danmu_count' = committed.danmu
          /\ db_user_danmu' = committed.user
          /\ db_texts' = committed.texts
          /\ db_times' = committed.times
    /\ UNCHANGED <<bufVars, fphase, fidx, fused, issued, readVars, committed, outsideStats>>

\* the exception leaves flush(): it ends the _flush_loop task; a read path
\* raises it to its caller
FlushRaise(f) ==
    /\ fpc[f] = "error"
    /\ fpc' = [fpc EXCEPT ![f] = IF f = "timer" THEN "dead" ELSE "idle"]
    /\ UNCHANGED <<bufVars, dbVars, fphase, fidx, fused, issued, readVars, txnVars, outsideStats>>

NextStats ==
    \/ \E u \in Uids : IncrDanmu(u)
    \/ \E f \in Flushers : FlushStart(f)
    \/ \E f \in Flushers : FlushStep(f)
    \/ \E f \in Flushers : FlushCommit(f)
    \/ \E f \in Flushers : FlushRaise(f)

\* ============================================================ RoomMonitor
NoTime == 0 - 1
StartClock == 2 * RECONNECT_THRESHOLD

\* a monitor as constructed; the persisted row is what an earlier run left:
\* live or not, with no end time, one RECONNECT_THRESHOLD ago, or an old one;
\* the last live-start push is absent, RECONNECT_THRESHOLD ago, or old
InitLive ==
    /\ is_live = FALSE
    /\ last_live_push_time \in {NoTime, StartClock - RECONNECT_THRESHOLD, 1}
    /\ lock_held = FALSE
    /\ lock_waiters = <<>>
    /\ db_live_status \in {0, 1}
    /\ db_live_end_time \in {0, StartClock - RECONNECT_THRESHOLD, 1}
    /\ clock = StartClock
    /\ lpc = [h \in LiveIds |-> "none"]
    /\ levt = [h \in LiveIds |-> FALSE]
    /\ lseen = [h \in LiveIds |-> 0]
    /\ lstat = [h \in LiveIds |-> 0]
    /\ lnow = [h \in LiveIds |-> 0]
    /\ lend = [h \in LiveIds |-> 0]
    /\ n_reset = 0
    /\ n_create = 0
    /\ n_notify = 0

Tick ==
    /\ clock < StartClock + MaxTick
    /\ clock' = clock + 1
    /\ UNCHANGED <<monVars, liveDbVars, handlerVars, callCountVars, outsideLive, statsVars>>

\* "if self._is_live: return", before the lock and again inside it
LiveSkip_Never(flag) == FALSE

LiveSkip(flag) == flag

IsReconnect_Strict(now, last_end, last_push) ==
    /\ last_end # 0
    /\ now - last_end < RECONNECT_THRESHOLD
    /\ last_push # NoTime
    /\ now - last_push < RECONNECT_THRESHOLD

\* a mutation of IsReconnect: the last push is not looked at
IsReconnect_EndOnly(now, last_end, last_push) ==
    /\ last_end # 0
    /\ now - last_end <= RECONNECT_THRESHOLD

\* the echo test of _handle_live_on
IsReconnect(now, last_end, last_push) ==
    /\ last_end # 0
    /\ now - last_end <= RECONNECT_THRESHOLD
    /\ last_push # NoTime
    /\ now - last_push <= RECONNECT_THRESHOLD

\* dispatch() creates a task for the LIVE handler; the event carries a
\* live_time or none (0)
LiveDispatch(h) ==
    /\ lpc[h] = "none"
    /\ \A g \in LiveIds : g < h => lpc[g] # "none"
    /\ \E t \in BOOLEAN : levt' = [levt EXCEPT ![h] = t]
    /\ lseen' = [lseen EXCEPT ![h] = TotalIssued]
    /\ lpc' = [lpc EXCEPT ![h] = "start"]
    /\ UNCHANGED <<monVars, liveDbVars, clock, lstat, lnow, lend, callCountVars,
                   outsideLive, statsVars>>

\* inside the lock: the second check, then "await self.db.get_live_status"
LiveLocked(h, waiters) ==
    /\ lock_waiters' = waiters
    /\ IF LiveSkip(is_live)
         THEN /\ lock_held' = FALSE
              /\ lpc' = [lpc EXCEPT ![h] = "skipped"]
              /\ UNCHANGED lstat
         ELSE /\ lock_held' = TRUE
              /\ lstat' = [lstat EXCEPT ![h] = db_live_status]
              /\ lpc' = [lpc EXCEPT ![h] = "status"]
    /\ UNCHANGED <<is_live, last_live_push_time, liveDbVars, clock, levt, lseen, lnow, lend,
                   callCountVars, outsideLive, statsVars>>

\* the task starts: the fast check, then "async with self._live_event_lock"
LiveBegin(h) ==
    /\ lpc[h] = "start"
    /\ IF LiveSkip(is_live)
         THEN /\ lpc' = [lpc EXCEPT ![h] = "skipped"]
              /\ UNCHANGED <<monVars, liveDbVars, clock, levt, lseen, lstat, lnow, lend,
                             callCountVars, outsideLive, statsVars>>
         ELSE IF ~lock_held /\ lock_waiters = <<>>
           THEN LiveLocked(h, lock_waiters)
           ELSE /\ lock_waiters' = Append(lock_waiters, h)
                /\ lpc' = [lpc EXCEPT ![h] = "wait_lock"]
                /\ UNCHANGED <<is_live, last_live_push_time, lock_held, liveDbVars, clock,
                               levt, lseen, lstat, lnow, lend, callCountVars, outsideLive, statsVars>>

\* the lock was released and this task is the first waiter
LiveLockGranted(h) ==
    /\ lpc[h] = "wait_lock"
    /\ ~lock_held
    /\ lock_waiters # <<>>
    /\ Head(lock_waiters) = h
    /\ LiveLocked(h, Tail(lock_waiters))

\* a mutation of AlreadyLive: the persisted status is not looked at
AlreadyLive_Never(current_status) == FALSE

\* "if current_status == 1" of _handle_live_on
AlreadyLive(current_status) == current_status = 1

\* get_live_status returned: the persisted status decides; the flag is set and
\* the lock released either way; then now is taken and get_live_end_time awaited
LiveStatusRead(h) ==
    /\ lpc[h] = "status"
    /\ is_live' = TRUE
    /\ lock_held' = FALSE
    /\ IF AlreadyLive(lstat[h])
         THEN /\ lpc' = [lpc EXCEPT ![h] = "persisted"]
              /\ UNCHANGED <<lnow, lend>>
         ELSE /\ lnow' = [lnow EXCEPT ![h] = clock]
              /\ lend' = [lend EXCEPT ![h] = db_live_end_time]
              /\ lpc' = [lpc EXCEPT ![h] = "end_time"]
    /\ UNCHANGED <<last_live_push_time, lock_waiters, liveDbVars, clock, levt, lseen, lstat,
                   callCountVars, outsideLive, statsVars>>

\* get_live_end_time returned: echo or genuine start; both await
\* set_live_status(room, 1)
LiveEndTimeRead(h) ==
    /\ lpc[h] = "end_time"
    /\ db_live_status' = 1
    /\ lpc' = [lpc EXCEPT ![h] =
                  IF IsReconnect(lnow[h], lend[h], last_live_push_time)
                    THEN "echo_set" ELSE "set_status"]
    /\ UNCHANGED <<monVars, db_live_end_time, clock, levt, lseen, lstat, lnow, lend,
                   callCountVars, outsideLive, statsNoTxn>>
    /\ CommitAll

LiveEchoDone(h) ==
    /\ lpc[h] = "echo_set"
    /\ lpc' = [lpc EXCEPT ![h] = "echoed"]
    /\ UNCHANGED <<monVars, liveDbVars, clock, levt, lseen, lstat, lnow, lend, callCountVars,
                   outsideLive, statsVars>>

\* the start time: from the event, else "await get_room_info_v2()"; then
\* "await set_live_start_time"
LiveStatusSet(h) ==
    /\ lpc[h] = "set_status"
    /\ lpc' = [lpc EXCEPT ![h] = IF levt[h] THEN "set_start" ELSE "start_http"]
    /\ UNCHANGED <<monVars, liveDbVars, clock, levt, lseen, lstat, lnow, lend, callCountVars,
                   outsideLive, statsNoTxn>>
    /\ IF levt[h] THEN CommitAll ELSE UNCHANGED txnVars

\* get_room_info_v2 returned or raised (caught); "await set_live_start_time"
LiveStartHttp(h) ==
    /\ lpc[h] = "start_http"
    /\ lpc' = [lpc EXCEPT ![h] = "set_start"]
    /\ UNCHANGED <<monVars, liveDbVars, clock, levt, lseen, lstat, lnow, lend, callCountVars,
                   outsideLive, statsNoTxn>>
    /\ CommitAll

\* "await self.db.reset_room_stats(self.room_id)": the room's rows are deleted
LiveStartSet(h) ==
    /\ lpc[h] = "set_start"
    /\ n_reset' = n_reset + 1
    /\ db_danmu_count' = 0
    /\ db_user_danmu' = [u \in 1..NumUsers |-> 0]
    /\ db_texts' = 0
    /\ db_times' = 0
    /\ lpc' = [lpc EXCEPT ![h] = "reset"]
    /\ UNCHANGED <<monVars, liveDbVars, clock, levt, lseen, lstat, lnow, lend, n_create, n_notify,
                   outsideLive, bufVars, flushVars, issued, readVars>>
    /\ CommitAll

\* the reset returned: _last_live_push_time = now, then the base data is
\* fetched (three requests, failures caught)
LiveResetDone(h) ==
    /\ lpc[h] = "reset"
    /\ last_live_push_time' = lnow[h]
    /\ lpc' = [lpc EXCEPT ![h] = "info"]
    /\ UNCHANGED <<is_live, lock_held, lock_waiters, liveDbVars, clock, levt, lseen, lstat, lnow,
                   lend, callCountVars, outsideLive, statsVars>>

\* "await self.db.create_session(...)"
LiveInfoDone(h) ==
    /\ lpc[h] = "info"
    /\ n_create' = n_create + 1
    /\ lpc' = [lpc EXCEPT ![h] = "create"]
    /\ UNCHANGED <<monVars, liveDbVars, clock, levt, lseen, lstat, lnow, lend, n_reset, n_notify,
                   outsideLive, statsNoTxn>>
    /\ CommitAll

\* the callback is set: "await self._live_room.get_room_info()"
LiveSessionCreated(h) ==
    /\ lpc[h] = "create"
    /\ lpc' = [lpc EXCEPT ![h] = "cb_info"]
    /\ UNCHANGED <<monVars, liveDbVars, clock, levt, lseen, lstat, lnow, lend, callCountVars,
                   outsideLive, statsVars>>

\* "await self._on_live_start(self, callback_data)"
LiveCallbackInfo(h) ==
    /\ lpc[h] = "cb_info"
    /\ n_notify' = n_notify + 1
    /\ lpc' = [lpc EXCEPT ![h] = "notify"]
    /\ UNCHANGED <<monVars, liveDbVars, clock, levt, lseen, lstat, lnow, lend, n_reset, n_create,
                   outsideLive, statsVars>>

\* get_room_info raised: caught and logged, the callback is not called
LiveCallbackInfoFail(h) ==
    /\ lpc[h] = "cb_info"
    /\ lpc' = [lpc EXCEPT ![h] = "cb_failed"]
    /\ UNCHANGED <<monVars, liveDbVars, clock, levt, lseen, lstat, lnow, lend, callCountVars,
                   outsideLive, statsVars>>

LiveNotified(h) ==
    /\ lpc[h] = "notify"
    /\ lpc' = [lpc EXCEPT ![h] = "started"]
    /\ UNCHANGED <<monVars, liveDbVars, clock, levt, lseen, lstat, lnow, lend, callCountVars,
                   outsideLive, statsVars>>

NextLive ==
    \/ Tick
    \/ \E h \in LiveIds : LiveDispatch(h)
    \/ \E h \in LiveIds : LiveBegin(h)
    \/ \E h \in LiveIds : LiveLockGranted(h)
    \/ \E h \in LiveIds : LiveStatusRead(h)
    \/ \E h \in LiveIds : LiveEndTimeRead(h)
    \/ \E h \in LiveIds : LiveEchoDone(h)
    \/ \E h \in LiveIds : LiveStatusSet(h)
    \/ \E h \in LiveIds : LiveStartHttp(h)
    \/ \E h \in LiveIds : LiveStartSet(h)
    \/ \E h \in LiveIds : LiveResetDone(h)
    \/ \E h \in LiveIds : LiveInfoDone(h)
    \/ \E h \in LiveIds : LiveSessionCreated(h)
    \/ \E h \in LiveIds : LiveCallbackInfo(h)
    \/ \E h \in LiveIds : LiveCallbackInfoFail(h)
    \/ \E h \in LiveIds : LiveNotified(h)

\* ------------------------------------------------ RoomMonitor: live end
InitOff ==
    /\ opc = [h \in OffIds |-> "none"]
    /\ ostat = [h \in OffIds |-> 0]
    /\ oend = [h \in OffIds |-> 0]
    /\ n_end = 0
    /\ n_live_end = 0

\* "if current_status != 1: return"
OffSkips(stat) == stat # 1

\* dispatch() creates a task for the PREPARING handler
OffDispatch(h) ==
    /\ opc[h] = "none"
    /\ \A g \in OffIds : g < h => opc[g] # "none"
    /\ opc' = [opc EXCEPT ![h] = "start"]
    /\ UNCHANGED <<is_live, liveDbVars, clock, ostat, oend, n_end, n_live_end, outsideOff, txnVars>>

\* the task starts: "await self.db.get_live_status(self.room_id)"
OffBegin(h) ==
    /\ opc[h] = "start"
    /\ ostat' = [ostat EXCEPT ![h] = db_live_status]
    /\ opc' = [opc EXCEPT ![h] = "status"]
    /\ UNCHANGED <<is_live, liveDbVars, clock, oend, n_end, n_live_end, outsideOff, txnVars>>

\* the status returned: not live, return; else the flag is reset, end_time
\* taken and "await self.db.set_live_status(self.room_id, 0)"
OffStatusRead(h) ==
    /\ opc[h] = "status"
    /\ IF OffSkips(ostat[h])
         THEN /\ opc' = [opc EXCEPT ![h] = "skipped"]
              /\ UNCHANGED <<is_live, liveDbVars, oend>>
         ELSE /\ is_live' = FALSE
              /\ oend' = [oend EXCEPT ![h] = clock]
              /\ db_live_status' = 0
              /\ opc' = [opc EXCEPT ![h] = "set_status"]
              /\ UNCHANGED db_live_end_time
    /\ UNCHANGED <<clock, ostat, n_end, n_live_end, outsideOff>>
    /\ IF OffSkips(ostat[h]) THEN UNCHANGED txnVars ELSE CommitAll

\* "await self.db.set_live_end_time(self.room_id, end_time)"
OffStatusSet(h) ==
    /\ opc[h] = "set_status"
    /\ db_live_end_time' = oend[h]
    /\ opc' = [opc EXCEPT ![h] = "set_end"]
    /\ UNCHANGED <<is_live, db_live_status, clock, ostat, oend, n_end, n_live_end, outsideOff>>
    /\ CommitAll

\* the end time is stored; the closing data is fetched (three requests,
\* failures caught)
OffEndSet(h) ==
    /\ opc[h] = "set_end"
    /\ opc' = [opc EXCEPT ![h] = "info"]
    /\ UNCHANGED <<is_live, liveDbVars, clock, ostat, oend, n_end, n_live_end, outsideOff, txnVars>>

\* "await self.db.end_session(...)"
OffInfoDone(h) ==
    /\ opc[h] = "info"
    /\ n_end' = n_end + 1
    /\ opc' = [opc EXCEPT ![h] = "end_session"]
    /\ UNCHANGED <<is_live, liveDbVars, clock, ostat, oend, n_live_end, outsideOff>>
    /\ CommitAll

\* the callback is set: "await self._on_live_end(self, {...})"
OffSessionEnded(h) ==
    /\ opc[h] = "end_session"
    /\ n_live_end' = n_live_end + 1
    /\ opc' = [opc EXCEPT ![h] = "notify"]
    /\ UNCHANGED <<is_live, liveDbVars, clock, ostat, oend, n_end, outsideOff, txnVars>>

\* the callback returned or raised (caught)
OffNotified(h) ==
    /\ opc[h] = "notify"
    /\ opc' = [opc EXCEPT ![h] = "ended"]
    /\ UNCHANGED <<is_live, liveDbVars, clock, ostat, oend, n_end, n_live_end, outsideOff, txnVars>>

NextOff ==
    \/ Tick
    \/ \E h \in OffIds : OffDispatch(h)
    \/ \E h \in OffIds : OffBegin(h)
    \/ \E h \in OffIds : OffStatusRead(h)
    \/ \E h \in OffIds : OffStatusSet(h)
    \/ \E h \in OffIds : OffEndSet(h)
    \/ \E h \in OffIds : OffInfoDone(h)
    \/ \E h \in OffIds : OffSessionEnded(h)
    \/ \E h \in OffIds : OffNotified(h)

\* -------------------------------------------------- claims: live-start dedup
LiveFinal == {"skipped", "persisted", "echoed", "started", "cb_failed"}

\* ======================================================= packet decoding
\* Python data[a:b]
Slice(d, a, b) ==
    LET e == IF b < Len(d) THEN b ELSE Len(d)
    IN IF a >= e THEN <<>> ELSE SubSeq(d, a + 1, e)

\* big-endian unsigned integers
U16(v) == <<(v \div 256) % 256, v % 256>>
U32(v) == <<(v \div 16777216) % 256, (v \div 65536) % 256, (v \div 256) % 256, v % 256>>
FromU16(b) == b[1] * 256 + b[2]
FromU32(b) == ((b[1] * 256 + b[2]) * 256 + b[3]) * 256 + b[4]

\* struct.pack(">IHHII", ...)
Pack(packet_len, header_len, ver, operation, seq) ==
    U32(packet_len) \o U16(header_len) \o U16(ver) \o U32(operation) \o U32(seq)

\* struct.unpack(">IHHII", b) of 16 bytes
Unpack(b) ==
    [packet_len |-> FromU32(SubSeq(b, 1, 4)),
     header_len |-> FromU16(SubSeq(b, 5, 6)),
     ver |-> FromU16(SubSeq(b, 7, 8)),
     operation |-> FromU32(SubSeq(b, 9, 12))]

\* a frame as the service sends it
Frame(ver, operation, body) ==
    Pack(HEADER_LEN + Len(body), HEADER_LEN, ver, operation, 1) \o body

\* the JSON text of a message is reduced to "{" cmd "}" with a one-byte cmd
JsonText(cmd) == <<123, cmd, 125>>

\* json.loads(body) and data.get("cmd"): the cmd, or none when the text does
\* not parse (JSONDecodeError, swallowed by _parse_message)
ParseMessage(body) ==
    IF Len(body) = 3 /\ body[1] = 123 /\ body[3] = 125
      THEN <<[name |-> "MESSAGE", v |-> body[2]]>>
      ELSE <<>>

\* the sum of the bytes modulo 256, by halves
RECURSIVE ByteSum(_)
ByteSum(b) ==
    IF b = <<>> THEN 0
    ELSE IF Len(b) = 1 THEN b[1] % 256
    ELSE LET half == Len(b) \div 2
         IN (ByteSum(SubSeq(b, 1, half)) + ByteSum(SubSeq(b, half + 1, Len(b)))) % 256

\* a compressed stream is reduced to a one-byte marker of the format (zlib
\* 120, Brotli 27), the content, and a check byte
Compress(marker, x) == <<marker>> \o x \o <<ByteSum(x)>>

\* zlib.decompress / brotli.decompress: the content, or an error
DecompressOk(marker, b) ==
    /\ Len(b) >= 2
    /\ b[1] = marker
    /\ b[Len(b)] = ByteSum(SubSeq(b, 2, Len(b) - 1))

\* a mutation of Decompress: the check byte stays at the end of the content
Decompress_KeepCheck(b) == SubSeq(b, 2, Len(b))

Decompress(b) == SubSeq(b, 2, Len(b) - 1)

ZLIB == 120
BROTLI == 27

\* _parse_packet(data) from offset on: how it ends ("ok": the loop ran to the
\* end of data; "error": an exception left it; "hang": the offset stopped
\* advancing) and the events dispatched up to there
RECURSIVE ParseFrom(_, _)
ParseFrom(data, offset) ==
    IF offset >= Len(data)
      THEN [kind |-> "ok", events |-> <<>>]
      ELSE IF Len(data) - offset < HEADER_LEN
        THEN [kind |-> "error", events |-> <<>>]
        ELSE
          LET h == Unpack(SubSeq(data, offset + 1, offset + HEADER_LEN))
              body == Slice(data, offset + h.header_len, offset + h.packet_len)
              marker == IF h.ver = 2 THEN ZLIB ELSE BROTLI
              here ==
                CASE h.operation = CONNECT_SUCCESS ->
                       [kind |-> "ok",
                        events |-> <<[name |-> "VERIFICATION_SUCCESSFUL", v |-> 0]>>]
                  [] h.operation = HEARTBEAT_REPLY ->
                       [kind |-> "ok",
                        events |-> IF Len(body) >= 4
                                     THEN <<[name |-> "POPULARITY",
                                             v |-> FromU32(SubSeq(body, 1, 4))]>>
                                     ELSE <<>>]
                  [] h.operation = MESSAGE /\ h.ver \in {0, 1} ->
                       [kind |-> "ok", events |-> ParseMessage(body)]
                  [] h.operation = MESSAGE /\ h.ver \in {2, 3} ->
                       IF DecompressOk(marker, body)
                         THEN ParseFrom(Decompress(body), 0)
                         ELSE [kind |-> "error", events |-> <<>>]
                  [] OTHER -> [kind |-> "ok", events |-> <<>>]
          IN IF here.kind # "ok"
               THEN here
               ELSE IF h.packet_len = 0
                 THEN [kind |-> "hang", events |-> here.events]
                 ELSE LET rest == ParseFrom(data, offset + h.packet_len)
                      IN [kind |-> rest.kind, events |-> here.events \o rest.events]

ParsePacket(data) == ParseFrom(data, 0)

\* ------------------------------------------------ received binary messages
LIVE == 76

\* frames the service sends: the connect-ack, a heartbeat reply, a message,
\* and the message inside a zlib and inside a Brotli frame
SampleFrames ==
    { Frame(1, CONNECT_SUCCESS, <<>>),
      Frame(1, HEARTBEAT_REPLY, U32(7)),
      Frame(0, MESSAGE, JsonText(LIVE)),
      Frame(2, MESSAGE, Compress(ZLIB, Frame(0, MESSAGE, JsonText(LIVE)))),
      Frame(3, MESSAGE, Compress(BROTLI, Frame(0, MESSAGE, JsonText(LIVE)))) }

\* the event a sample frame stands for
SampleEvent(f) ==
    LET h == Unpack(SubSeq(f, 1, HEADER_LEN))
    IN CASE h.operation = CONNECT_SUCCESS -> [name |-> "VERIFICATION_SUCCESSFUL", v |-> 0]
         [] h.operation = HEARTBEAT_REPLY -> [name |-> "POPULARITY", v |-> 7]
         [] OTHER -> [name |-> "MESSAGE", v |-> LIVE]

\* sequences of up to n sample frames
RECURSIVE FrameSeqs(_)
FrameSeqs(n) ==
    IF n = 0 THEN {<<>>}
    ELSE LET shorter == FrameSeqs(n - 1)
         IN shorter \cup {Append(q, f) : q \in shorter, f \in SampleFrames}

RECURSIVE Concat(_)
Concat(q) == IF q = <<>> THEN <<>> ELSE Head(q) \o Concat(Tail(q))

NoResult == [kind |-> "none", events |-> <<>>]

\* no message is being decoded
InitCodecIdle ==
    /\ inbuf = <<>>
    /\ inexpect = <<>>
    /\ incut = "none"
    /\ inchain = <<>>
    /\ parsed = NoResult

\* a binary message: complete frames, then nothing, or a frame cut inside its
\* header, or a frame cut inside its body
InitCodec ==
    /\ parsed = NoResult
    /\ inchain = <<>>
    /\ \E q \in FrameSeqs(MaxFrames) :
         /\ inexpect = [i \in 1..Len(q) |-> SampleEvent(q[i])]
         /\ \/ incut = "none" /\ inbuf = Concat(q)
            \/ /\ Len(q) < MaxFrames
               /\ \E f \in SampleFrames : \E n \in 1..(Len(f) - 1) :
                    /\ inbuf = Concat(q) \o SubSeq(f, 1, n)
                    /\ incut = IF n < HEADER_LEN THEN "header" ELSE "body"

\* _parse_packet(msg.data)
ParseInput ==
    /\ parsed = NoResult
    /\ parsed' = ParsePacket(inbuf)
    /\ UNCHANGED <<inbuf, inexpect, incut, inchain, outsideCodec>>

NextCodec == ParseInput

\* ---------------------------------------------------------- byte strings
\* Operation: every member of the enum
Operations == {HEARTBEAT, HEARTBEAT_REPLY, MESSAGE, USER_AUTHENTICATION, CONNECT_SUCCESS}

\* byte values of payloads: low, a value equal to the header length, "{", high
BodyBytes == {0, 16, 123, 255}

RECURSIVE BytesUpTo(_)
BytesUpTo(n) ==
    IF n = 0 THEN {<<>>}
    ELSE LET shorter == BytesUpTo(n - 1)
         IN shorter \cup {Append(b, x) : b \in shorter, x \in BodyBytes}

\* ----------------------------------------------------- declared lengths
\* a binary message: a header that declares any total length from 0 on, and
\* some bytes after it
InitAnyLength ==
    /\ parsed = NoResult
    /\ incut = "none"
    /\ inchain = <<>>
    /\ inexpect = <<>>
    /\ \E declared \in 0..MaxDeclared, op \in {HEARTBEAT, HEARTBEAT_REPLY, MESSAGE},
          body \in BytesUpTo(2) :
         inbuf = Pack(declared, HEADER_LEN, 1, op, 1) \o body

\* ------------------------------------------------ nested compressed frames
PREPARING == 80

\* the cmd of a plain message
Cmds == {LIVE, PREPARING}

\* a plain JSON message frame
PlainFrame(cmd) == Frame(0, MESSAGE, JsonText(cmd))

\* the compression a message frame of a version carries
MarkerOf(ver) == IF ver = 2 THEN ZLIB ELSE BROTLI

\* f inside one compressed message frame per version of chain, outermost first
RECURSIVE Wrap(_, _)
Wrap(chain, f) ==
    IF chain = <<>> THEN f
    ELSE Frame(Head(chain), MESSAGE, Compress(MarkerOf(Head(chain)), Wrap(Tail(chain), f)))

\* sequences of up to n compressed versions
RECURSIVE Chains(_)
Chains(n) ==
    IF n = 0 THEN {<<>>}
    ELSE LET shorter == Chains(n - 1)
         IN shorter \cup {Append(c, v) : c \in shorter, v \in {2, 3}}

\* a binary message: one plain message inside up to MaxNest compressed frames
InitNest ==
    /\ parsed = NoResult
    /\ incut = "none"
    /\ inchain \in Chains(MaxNest)
    /\ \E cmd \in Cmds :
         /\ inbuf = Wrap(inchain, PlainFrame(cmd))
         /\ inexpect = <<[name |-> "MESSAGE", v |-> cmd]>>

\* ================================================= LiveDanmaku.dispatch()
EventNames == {"LIVE", "DANMU_MSG"}

InitDispatch ==
    /\ handlers = [e \in EventNames |-> <<>>]
    /\ tasks = <<>>
    /\ dispatched = <<>>
    /\ dloop = "recv"

\* @on(event) applied to a function: the function is appended to the list of
\* the event (every decorated function is a new "async def")
On(e) ==
    /\ Len(handlers[e]) < MaxHandlers
    /\ handlers' = [handlers EXCEPT ![e] = Append(@, Len(@) + 1)]
    /\ UNCHANGED <<tasks, dispatched, dloop, outsideDispatch>>

\* a mutation of TasksFor: only the first handler is started
TasksFor_FirstOnly(e, d) ==
    [i \in 1..(IF Len(handlers[e]) > 0 THEN 1 ELSE 0) |->
       [d |-> d, h |-> handlers[e][i], st |-> "pending"]]

\* a mutation of TasksFor: the handlers are taken last to first
TasksFor_Reversed(e, d) ==
    [i \in 1..Len(handlers[e]) |->
       [d |-> d, h |-> handlers[e][Len(handlers[e]) + 1 - i], st |-> "pending"]]

\* "for handler in self._handlers[event]: asyncio.create_task(handler(...))":
\* calling an "async def" runs none of its body, so one task per handler
TasksFor(e, d) ==
    [i \in 1..Len(handlers[e]) |-> [d |-> d, h |-> handlers[e][i], st |-> "pending"]]

\* dispatch(event, data), called by the receive loop while it decodes
Dispatch(e) ==
    /\ dloop = "recv"
    /\ Len(dispatched) < MaxDispatch
    /\ tasks' = tasks \o TasksFor(e, Len(dispatched) + 1)
    /\ dispatched' = Append(dispatched, [event |-> e, n |-> Len(handlers[e])])
    /\ UNCHANGED <<handlers, dloop, outsideDispatch>>

\* a handler task runs to its end
TaskDone(t) ==
    /\ t <= Len(tasks)
    /\ tasks[t].st = "pending"
    /\ tasks' = [tasks EXCEPT ![t].st = "done"]
    /\ UNCHANGED <<handlers, dispatched, dloop, outsideDispatch>>

\* a handler raises: the exception ends its task and is kept in the task
TaskFail(t) ==
    /\ t <= Len(tasks)
    /\ tasks[t].st = "pending"
    /\ tasks' = [tasks EXCEPT ![t].st = "failed"]
    /\ UNCHANGED <<handlers, dispatched, dloop, outsideDispatch>>

\* the socket closes: the receive loop ends (the tasks it created go on)
DispatchLoopEnd ==
    /\ dloop = "recv"
    /\ dloop' = "ended"
    /\ UNCHANGED <<handlers, tasks, dispatched, outsideDispatch>>

TaskIds == 1..(MaxHandlers * MaxDispatch)

NextDispatch ==
    \/ \E e \in EventNames : On(e)
    \/ \E e \in EventNames : Dispatch(e)
    \/ \E t \in TaskIds : TaskDone(t)
    \/ \E t \in TaskIds : TaskFail(t)
    \/ DispatchLoopEnd

\* ================================================== plugin: self.monitors
AddIds == 1..MaxAdd
RoomUids == 1..NumRooms

InitAdd ==
    /\ monitors = [u \in RoomUids |-> 0]
    /\ apc = [r \in AddIds |-> "idle"]
    /\ auid = [r \in AddIds |-> 0]
    /\ mclient = [r \in AddIds |-> "none"]

\* "if config.uid in self.monitors: return False"
AddSkips(uid) == monitors[uid] # 0

\* _add_monitor(config) up to its first await: the membership test, a new
\* RoomMonitor, and "await monitor.connect()" (every call creates its own
\* RoomMonitor, whose _connecting flag is False)
AddCall(r, uid) ==
    /\ apc[r] = "idle"
    /\ auid' = [auid EXCEPT ![r] = uid]
    /\ apc' = [apc EXCEPT ![r] = IF AddSkips(uid) THEN "done" ELSE "connecting"]
    /\ UNCHANGED <<monitors, mclient, outsideAdd>>

\* monitor.connect() returned True: the client is connected, and
\* "self.monitors[config.uid] = monitor"
AddConnected(r) ==
    /\ apc[r] = "connecting"
    /\ mclient' = [mclient EXCEPT ![r] = "connected"]
    /\ monitors' = [monitors EXCEPT ![auid[r]] = r]
    /\ apc' = [apc EXCEPT ![r] = "done"]
    /\ UNCHANGED <<auid, outsideAdd>>

\* monitor.connect() returned False: nothing is registered
AddConnectFail(r) ==
    /\ apc[r] = "connecting"
    /\ apc' = [apc EXCEPT ![r] = "done"]
    /\ UNCHANGED <<monitors, auid, mclient, outsideAdd>>

\* _remove_monitor(uid) up to its first await: "self.monitors.pop(uid)" and
\* "await monitor.disconnect()"
RemoveCall(uid) ==
    /\ monitors[uid] # 0
    /\ monitors' = [monitors EXCEPT ![uid] = 0]
    /\ mclient' = [mclient EXCEPT ![monitors[uid]] = "closing"]
    /\ UNCHANGED <<apc, auid, outsideAdd>>

\* monitor.disconnect() returned
RemoveDone(r) ==
    /\ mclient[r] = "closing"
    /\ mclient' = [mclient EXCEPT ![r] = "closed"]
    /\ UNCHANGED <<monitors, apc, auid, outsideAdd>>

NextAdd ==
    \/ \E r \in AddIds, uid \in RoomUids : AddCall(r, uid)
    \/ \E r \in AddIds : AddConnected(r)
    \/ \E r \in AddIds : AddConnectFail(r)
    \/ \E uid \in RoomUids : RemoveCall(uid)
    \/ \E r \in AddIds : RemoveDone(r)

\* ====================================================== encode then decode
\* a mutation of EncodePacket: the length field holds the body length alone
EncodePacket_BodyLength(operation, body) ==
    Pack(Len(body), HEADER_LEN, 1, operation, 1) \o body

\* _send_packet: struct.pack(">IHHII", len(body) + 16, 16, 1, operation.value, 1) + body
EncodePacket(operation, body) ==
    Pack(Len(body) + 16, 16, 1, operation, 1) \o body

\* the frame-splitting loop of _parse_packet: the (operation, version, body) of
\* each frame it takes from data, and how the loop ends
RECURSIVE FramesFrom(_, _)
FramesFrom(data, offset) ==
    IF offset >= Len(data)
      THEN [kind |-> "ok", frames |-> <<>>]
      ELSE IF Len(data) - offset < HEADER_LEN
        THEN [kind |-> "error", frames |-> <<>>]
        ELSE
          LET h == Unpack(SubSeq(data, offset + 1, offset + HEADER_LEN))
              body == Slice(data, offset + h.header_len, offset + h.packet_len)
              f == [operation |-> h.operation, ver |-> h.ver, body |-> body]
          IN IF h.packet_len = 0
               THEN [kind |-> "hang", frames |-> <<f>>]
               ELSE LET rest == FramesFrom(data, offset + h.packet_len)
                    IN [kind |-> rest.kind, frames |-> <<f>> \o rest.frames]

NoFrames == [kind |-> "none", frames |-> <<>>]

\* nothing is being sent
InitRtIdle ==
    /\ sent_op = 0
    /\ sent_body = <<>>
    /\ wire = <<>>
    /\ frames = NoFrames

\* any operation and payload
InitRt ==
    /\ sent_op \in Operations
    /\ sent_body \in BytesUpTo(MaxBody)
    /\ wire = <<>>
    /\ frames = NoFrames

\* "await self._ws.send_bytes(header + body)"
SendPacket ==
    /\ sent_op # 0
    /\ wire = <<>>
    /\ wire' = EncodePacket(sent_op, sent_body)
    /\ UNCHANGED <<sent_op, sent_body, frames, outsideRt>>

\* the peer decodes the message with the same loop
DecodeWire ==
    /\ wire # <<>>
    /\ frames = NoFrames
    /\ frames' = FramesFrom(wire, 0)
    /\ UNCHANGED <<sent_op, sent_body, wire, outsideRt>>

NextRt == SendPacket \/ DecodeWire

\* ========================================================= ranking queries
\* uids and values of the rows; the table's key is (room_id, uid)
RankUids == {1, 2, 3}
RankValues == {2, 5, 9}

NoRanking == <<"none">>

\* a mutation of NextRows: ascending order
NextRows_Ascending(rows) ==
    {r \in rows : \A o \in rows : o.value >= r.value}

\* ORDER BY value DESC: the rows that may come next, those of the highest
\* value (the order among equal values is the engine's choice)
NextRows(rows) ==
    {r \in rows : \A o \in rows : o.value <= r.value}

\* "... ORDER BY value DESC LIMIT n": every list the engine may return
RECURSIVE OrderedLimit(_, _)
OrderedLimit(rows, n) ==
    IF n = 0 \/ rows = {} THEN {<<>>}
    ELSE UNION {{<<r>> \o q : q \in OrderedLimit(rows \ {r}, n - 1)} : r \in NextRows(rows)}

\* "[(row[0], row[1]) for row in await cursor.fetchall()]"
Pairs(q) == [i \in 1..Len(q) |-> <<q[i].uid, q[i].value>>]

\* "SELECT uid, value FROM table WHERE room_id = ? ORDER BY value DESC LIMIT ?"
RankingResults(rows, room, limit) ==
    {Pairs(q) : q \in OrderedLimit({r \in rows : r.room = room}, limit)}

\* no query is made
InitRankIdle ==
    /\ rk_rows = {}
    /\ rk_room = 0
    /\ rk_limit = 0
    /\ rk_result = NoRanking

\* any table of the room queried, at most one row of another room, any limit
InitRank ==
    /\ rk_room = 1
    /\ rk_limit \in 0..MaxLimit
    /\ rk_result = NoRanking
    /\ \E own \in [RankUids -> RankValues \cup {0}],
          other \in [RankUids -> {0, 9}] :
         /\ Cardinality({u \in RankUids : other[u] # 0}) <= 1
         /\ rk_rows =
              {[room |-> 1, uid |-> u, value |-> own[u]] : u \in {v \in RankUids : own[v] # 0}}
              \cup {[room |-> 2, uid |-> u, value |-> other[u]] :
                      u \in {v \in RankUids : other[v] # 0}}

\* get_user_danmu_ranking(room_id, limit) and its siblings, with nothing
\* buffered: the flush writes nothing, then the SELECT
GetRanking ==
    /\ rk_room # 0
    /\ rk_result = NoRanking
    /\ rk_result' \in RankingResults(rk_rows, rk_room, rk_limit)
    /\ UNCHANGED <<rk_rows, rk_room, rk_limit, outsideRank>>

NextRank == GetRanking

\* ============================== process start, _init_live_status()
InitRestartIdle ==
    /\ ipc = "none"
    /\ istat = 0
    /\ n_restart = 0

\* The process is started again while no handler is running; the store keeps
\* its rows. connect() makes a new RoomMonitor (flag False, lock free, no push
\* time) and the first VERIFICATION_SUCCESSFUL calls _init_live_status():
\* "await self._live_room.get_room_play_info()"
Restart ==
    /\ n_restart < MaxRestart
    /\ \A h \in LiveIds : lpc[h] \in LiveFinal \cup {"none"}
    /\ ipc \in {"none", "done"}
    /\ n_restart' = n_restart + 1
    /\ is_live' = FALSE
    /\ last_live_push_time' = NoTime
    /\ lock_held' = FALSE
    /\ lock_waiters' = <<>>
    /\ ipc' = "info"
    /\ UNCHANGED <<istat, liveDbVars, clock, handlerVars, callCountVars, txnVars,
                   outsideRestart>>

\* the room info arrived: "await self.db.set_live_status(self.room_id, status)"
\* with the status the service reports
InitStatusInfo ==
    /\ ipc = "info"
    /\ \E st \in {0, 1} :
         /\ istat' = st
         /\ db_live_status' = st
    /\ ipc' = "set"
    /\ UNCHANGED <<n_restart, monVars, db_live_end_time, clock, handlerVars,
                   callCountVars, outsideRestart>>
    /\ CommitAll

\* get_room_play_info raised: caught and logged
InitStatusFail ==
    /\ ipc = "info"
    /\ ipc' = "done"
    /\ UNCHANGED <<istat, n_restart, monVars, liveDbVars, clock, handlerVars,
                   callCountVars, txnVars, outsideRestart>>

\* the status is stored: "self._is_live = (status == 1)", and for a live room
\* "await self.db.set_live_start_time(...)"
InitStatusSet ==
    /\ ipc = "set"
    /\ is_live' = (istat = 1)
    /\ ipc' = "done"
    /\ UNCHANGED <<istat, n_restart, last_live_push_time, lock_held, lock_waiters,
                   liveDbVars, clock, handlerVars, callCountVars, outsideRestart>>
    /\ CommitAll

\* LIVE events and process starts; no PREPARING is handled
NextRestart ==
    \/ NextLive
    \/ Restart
    \/ InitStatusInfo
    \/ InitStatusFail
    \/ InitStatusSet

\* ===================================== StatsBuffer.incr_box(), box series
\* profits of one event, in tenths: a loss and two gains
BoxProfits == {0 - 5, 20, 30}

\* senders of gifts, and the quantities of one event
GiftUids == {1, 2}
GiftNums == {1, 2}

NoGift == [n |-> 0]

InitBox ==
    /\ room_box_profit = 0
    /\ room_box_profit_records = <<>>
    /\ db_box_profit_records = <<>>
    /\ box_deltas = <<>>
    /\ room_box_count = 0
    /\ user_box_count = [u \in GiftUids |-> 0]
    /\ user_box_profit = [u \in GiftUids |-> 0]
    /\ room_gift_profit = 0
    /\ user_gift_profit = [u \in GiftUids |-> 0]
    /\ gift_event = NoGift

\* "self.room_box_profit[room_id] += profit" and
\* "current_total = self.room_box_profit[room_id]"
BoxTotal(total, profit) == total + profit

\* the body of incr_box(room_id, uid, count, profit)
IncrBoxCall(uid, count, profit) ==
    /\ room_box_count' = room_box_count + count
    /\ user_box_count' = [user_box_count EXCEPT ![uid] = @ + count]
    /\ room_box_profit' = BoxTotal(room_box_profit, profit)
    /\ user_box_profit' = [user_box_profit EXCEPT ![uid] = @ + profit]
    /\ room_box_profit_records' =
         Append(room_box_profit_records, BoxTotal(room_box_profit, profit))
    /\ box_deltas' = Append(box_deltas, profit)

\* incr_box(room_id, uid, count, profit)
IncrBox(uid, count, profit) ==
    /\ Len(box_deltas) < MaxBox
    /\ IncrBoxCall(uid, count, profit)
    /\ UNCHANGED <<db_box_profit_records, room_gift_profit, user_gift_profit, gift_event,
                   outsideBox>>

\* flush() running alone, with only box events buffered: flush_buffer() inserts
\* the buffered records in order and commits, then _clear() empties the buffer
FlushBox ==
    /\ room_box_profit_records # <<>>
    /\ db_box_profit_records' = db_box_profit_records \o room_box_profit_records
    /\ room_box_profit' = 0
    /\ room_box_profit_records' = <<>>
    /\ room_box_count' = 0
    /\ user_box_count' = [u \in GiftUids |-> 0]
    /\ user_box_profit' = [u \in GiftUids |-> 0]
    /\ room_gift_profit' = 0
    /\ user_gift_profit' = [u \in GiftUids |-> 0]
    /\ UNCHANGED <<box_deltas, gift_event, outsideBox>>

NextBox ==
    \/ \E uid \in GiftUids, count \in GiftNums, profit \in BoxProfits : IncrBox(uid, count, profit)
    \/ FlushBox

\* the running totals of a sequence of deltas
RECURSIVE PrefixSums(_)
PrefixSums(d) ==
    IF d = <<>> THEN <<>>
    ELSE LET before == PrefixSums(SubSeq(d, 1, Len(d) - 1))
         IN Append(before, (IF before = <<>> THEN 0 ELSE before[Len(before)]) + d[Len(d)])

\* =================================== receive loop: decode, dispatch, start
DANMU_MSG == 68

\* the event name dispatch() is called with for an event of the decoder
EventOf(ev) ==
    IF ev.name # "MESSAGE" THEN ev.name
    ELSE IF ev.v = LIVE THEN "LIVE"
    ELSE IF ev.v = DANMU_MSG THEN "DANMU_MSG"
    ELSE "OTHER"

OrderCmds == {LIVE, DANMU_MSG}

\* what the service sends as one frame: a plain message, a heartbeat reply,
\* or a zlib / Brotli frame that holds two plain messages
OrderUnits ==
    {[data |-> PlainFrame(c), events |-> <<EventOf([name |-> "MESSAGE", v |-> c])>>] :
        c \in OrderCmds}
      \cup {[data |-> Frame(1, HEARTBEAT_REPLY, U32(7)), events |-> <<"POPULARITY">>]}
      \cup {[data |-> Frame(ver, MESSAGE,
                            Compress(MarkerOf(ver), PlainFrame(c1) \o PlainFrame(c2))),
             events |-> <<EventOf([name |-> "MESSAGE", v |-> c1]),
                          EventOf([name |-> "MESSAGE", v |-> c2])>>] :
                ver \in {2, 3}, c1 \in OrderCmds, c2 \in OrderCmds}

\* a binary message: one such frame, or one followed by a plain message
OrderMessages ==
    OrderUnits
      \cup {[data |-> u.data \o PlainFrame(c),
             events |-> Append(u.events, EventOf([name |-> "MESSAGE", v |-> c]))] :
                u \in OrderUnits, c \in OrderCmds}

InitOrder ==
    /\ rx_sent = <<>>
    /\ started = <<>>

\* the dispatch() calls of one _parse_packet(), in call order: each appends
\* its record and, "if event in self._handlers", its tasks
RECURSIVE DispatchAll(_, _, _)
DispatchAll(events, recs, tsk) ==
    IF events = <<>> THEN [dispatched |-> recs, tasks |-> tsk]
    ELSE LET e == EventOf(Head(events))
             known == e \in EventNames
         IN DispatchAll(Tail(events),
                Append(recs, [event |-> e, n |-> IF known THEN Len(handlers[e]) ELSE 0]),
                IF known THEN tsk \o TasksFor(e, Len(recs) + 1) ELSE tsk)

\* the next message of the "async for": "await self._parse_packet(msg.data)"
\* decodes it and calls dispatch() for each event (no await in it suspends)
RecvMessage ==
    /\ dloop = "recv"
    /\ Len(rx_sent) < MaxRecv
    /\ \E m \in OrderMessages :
         LET r == DispatchAll(ParsePacket(m.data).events, dispatched, tasks)
         IN /\ rx_sent' = Append(rx_sent, m.events)
            /\ dispatched' = r.dispatched
            /\ tasks' = r.tasks
    /\ UNCHANGED <<handlers, dloop, started, outsideOrder>>

\* the event loop runs the callbacks of the tasks in the order the tasks were
\* created: the oldest task that has not run yet starts
TaskStart ==
    /\ Len(started) < Len(tasks)
    /\ started' = Append(started, Len(started) + 1)
    /\ UNCHANGED <<rx_sent, dispatchVars, outsideOrder>>

\* handler registrations, then the receive loop and the tasks it creates
OrderOn(e) ==
    /\ rx_sent = <<>>
    /\ On(e)
    /\ UNCHANGED orderVars

OrderLoopEnd ==
    /\ DispatchLoopEnd
    /\ UNCHANGED orderVars

NextOrder ==
    \/ \E e \in EventNames : OrderOn(e)
    \/ RecvMessage
    \/ TaskStart
    \/ OrderLoopEnd

\* ============================================ RoomMonitor._handle_gift()
LUCKY_KEY == 31709

\* f"{x:.1f}" of an amount given in thousandths, in tenths: the nearest tenth;
\* halfway between two tenths the binary value of the float decides
Round1(x) ==
    IF x % 100 = 50 THEN {x \div 100, x \div 100 + 1} ELSE {(x + 50) \div 100}

\* "profit = float(f'{(discount_price / 1000) * num:.1f}')", 1% of it for the
\* lucky key; in thousandths
GiftProfit(gift_id, num, discount_price) ==
    {IF gift_id = LUCKY_KEY THEN t ELSE t * 100 : t \in Round1(discount_price * num)}

\* a mutation of BoxProfit: the prices are taken in hundredths
BoxProfit_Hundredths(num, discount_price, total_coin) ==
    Round1((discount_price * num - total_coin) * 10)

\* "box_profit = float(f'{(gift_price * gift_num) - box_price:.1f}')" with
\* box_price = total_coin / 1000 and gift_price = discount_price / 1000; in tenths
BoxProfit(num, discount_price, total_coin) ==
    Round1(discount_price * num - total_coin)

\* payloads: <<discount_price, total_coin>> of a gain, a loss that rounds
\* halfway, and a free gift
GiftPrices == {<<800, 500>>, <<250, 500>>, <<0, 0>>}

\* plain gifts, the lucky key, and blind boxes
GiftKinds == {[gift_id |-> 1, blind |-> FALSE],
              [gift_id |-> LUCKY_KEY, blind |-> FALSE],
              [gift_id |-> 1, blind |-> TRUE]}

\* _handle_gift(event): incr_gift() for a paid gift, incr_box() for a blind box
GiftEvent(uid, num, discount_price, total_coin, gift_id, blind) ==
    /\ gift_event.n < MaxGift
    /\ gift_event' = [n |-> gift_event.n + 1, uid |-> uid, num |-> num,
                      discount_price |-> discount_price, total_coin |-> total_coin,
                      gift_id |-> gift_id, blind |-> blind]
    /\ IF total_coin # 0 /\ discount_price # 0
         THEN \E profit \in GiftProfit(gift_id, num, discount_price) :
                /\ room_gift_profit' = room_gift_profit + profit
                /\ user_gift_profit' = [user_gift_profit EXCEPT ![uid] = @ + profit]
         ELSE UNCHANGED <<room_gift_profit, user_gift_profit>>
    /\ IF blind
         THEN \E box_profit \in BoxProfit(num, discount_price, total_coin) :
                IncrBoxCall(uid, num, box_profit)
         ELSE UNCHANGED <<room_box_count, user_box_count, room_box_profit, user_box_profit,
                          room_box_profit_records, box_deltas>>
    /\ UNCHANGED <<db_box_profit_records, outsideBox>>

NextGift ==
    \E uid \in GiftUids, num \in GiftNums, p \in GiftPrices, k \in GiftKinds :
        GiftEvent(uid, num, p[1], p[2], k.gift_id, k.blind)

\* ------------------------------------------------------------ specification
\* a fresh installation: no persisted row for the room
InitLiveFresh ==
    /\ InitLive
    /\ db_live_status = 0
    /\ db_live_end_time = 0
    /\ last_live_push_time = NoTime

Init == InitWS /\ InitStats /\ InitLiveFresh /\ InitOff /\ InitCodecIdle /\ InitDispatch
      /\ InitAdd
      /\ InitRtIdle
      /\ InitRankIdle
      /\ InitRestartIdle
      /\ InitBox
      /\ InitOrder

\* the monitor of a room with any persisted row
InitRoom == InitWS /\ InitStats /\ InitLive /\ InitOff /\ InitCodecIdle /\ InitDispatch
      /\ InitAdd
      /\ InitRtIdle
      /\ InitRankIdle
      /\ InitRestartIdle
      /\ InitBox
      /\ InitOrder

SpecOff == InitRoom /\ [][NextOff]_vars

\* the decoder applied to one binary message
InitDecode ==
    InitWS /\ InitStats /\ InitLiveFresh /\ InitOff /\ InitCodec /\ InitDispatch
      /\ InitAdd
      /\ InitRtIdle
      /\ InitRankIdle
      /\ InitRestartIdle
      /\ InitBox
      /\ InitOrder

SpecCodec == InitDecode /\ [][NextCodec]_vars

\* the decoder applied to one frame whose header declares any total length
InitDeclared ==
    InitWS /\ InitStats /\ InitLiveFresh /\ InitOff /\ InitAnyLength /\ InitDispatch
      /\ InitAdd /\ InitRtIdle
      /\ InitRankIdle
      /\ InitRestartIdle
      /\ InitBox
      /\ InitOrder

SpecLength == InitDeclared /\ [][NextCodec]_vars

\* the decoder applied to one message inside nested compressed frames
InitNested ==
    InitWS /\ InitStats /\ InitLiveFresh /\ InitOff /\ InitNest /\ InitDispatch
      /\ InitAdd /\ InitRtIdle
      /\ InitRankIdle
      /\ InitRestartIdle
      /\ InitBox
      /\ InitOrder

SpecNest == InitNested /\ [][NextCodec]_vars

\* registrations, dispatch() calls and the handler tasks
SpecDispatch == Init /\ [][NextDispatch]_vars

\* the encoder applied to any operation and payload, then the decoder
InitRoundTrip ==
    InitWS /\ InitStats /\ InitLiveFresh /\ InitOff /\ InitCodecIdle /\ InitDispatch
      /\ InitAdd /\ InitRt
      /\ InitRankIdle
      /\ InitRestartIdle
      /\ InitBox
      /\ InitOrder

SpecRoundTrip == InitRoundTrip /\ [][NextRt]_vars

\* a ranking query on any table
InitRanking ==
    InitWS /\ InitStats /\ InitLiveFresh /\ InitOff /\ InitCodecIdle /\ InitDispatch
      /\ InitAdd /\ InitRtIdle /\ InitRank
      /\ InitRestartIdle
      /\ InitBox
      /\ InitOrder

SpecRanking == InitRanking /\ [][NextRank]_vars

\* LIVE events across process starts
SpecRestart == InitRoom /\ [][NextRestart]_vars

\* blind-box events and flushes that run alone
SpecBox == Init /\ [][NextBox]_vars

\* messages of one socket, decoded and dispatched, and the tasks started
SpecOrder == Init /\ [][NextOrder]_vars

\* SEND_GIFT events of any payload
SpecGift == Init /\ [][NextGift]_vars

\* a LIVE frame and then a PREPARING frame on the socket: dispatch() creates
\* the task of the PREPARING handler after the task of the LIVE handler
OffAfterLive ==
    /\ lpc[1] # "none"
    /\ OffDispatch(1)

NextOnOff ==
    \/ Tick
    \/ LiveDispatch(1)
    \/ LiveBegin(1)
    \/ LiveStatusRead(1)
    \/ LiveEndTimeRead(1)
    \/ LiveEchoDone(1)
    \/ LiveStatusSet(1)
    \/ LiveStartHttp(1)
    \/ LiveStartSet(1)
    \/ LiveResetDone(1)
    \/ LiveInfoDone(1)
    \/ LiveSessionCreated(1)
    \/ LiveCallbackInfo(1)
    \/ LiveCallbackInfoFail(1)
    \/ LiveNotified(1)
    \/ OffAfterLive
    \/ OffBegin(1)
    \/ OffStatusRead(1)
    \/ OffStatusSet(1)
    \/ OffEndSet(1)
    \/ OffInfoDone(1)
    \/ OffSessionEnded(1)
    \/ OffNotified(1)

SpecOnOff == InitRoom /\ [][NextOnOff]_vars

\* "last_end = await self.db.get_live_end_time(...)" raises (a storage error):
\* nothing in _handle_live_on catches it, the exception ends the handler task
LiveStorageFail(h) ==
    /\ lpc[h] = "end_time"
    /\ lpc' = [lpc EXCEPT ![h] = "aborted"]
    /\ UNCHANGED <<monVars, liveDbVars, clock, levt, lseen, lstat, lnow, lend, callCountVars,
                   outsideLive, statsVars>>

\* LIVE events whose handlers may be ended by a storage error
NextAbort ==
    \/ NextLive
    \/ \E h \in LiveIds : LiveStorageFail(h)

\* a monitor as constructed whose persisted row says not live
InitAbort == InitRoom /\ db_live_status = 0

SpecAbort == InitAbort /\ [][NextAbort]_vars

\* StatsBuffer.incr_danmu() before close() is called, between two flushes
IncrBeforeClose(u) ==
    /\ close_pc = "idle"
    /\ NoFlushActive
    /\ IncrDanmu(u)

\* a step of the _flush_loop task
TimerFlush ==
    \/ FlushStart("timer")
    \/ FlushStep("timer")
    \/ FlushCommit("timer")
    \/ FlushCommitFail("timer")
    \/ FlushRaise("timer")

\* StatsDB.close() calls StatsBuffer.stop(): "self._flush_task.cancel()",
\* "await self._flush_task". The task ends with CancelledError at the await
\* it is at: the statements it has executed stay in the open transaction of
\* the connection (nothing rolls back), a commit it was waiting for was handed
\* to the connection or not (the await of the cursor's close comes before it),
\* and self._clear() has not run. stop() then calls flush(), which enters
\* flush_buffer() up to "async with self._conn.cursor()"
CloseCall ==
    /\ close_pc = "idle"
    /\ fpc["timer"] \in {"idle", "cursor", "stmt", "commit"}
    /\ close_pc' = "flush"
    /\ fpc' = [fpc EXCEPT !["timer"] = "dead", !["stop"] = "cursor"]
    /\ \/ UNCHANGED committed
       \/ /\ fpc["timer"] = "commit"
          /\ committed' = Tables(db_danmu_count, db_user_danmu, db_texts, db_times)
    /\ UNCHANGED <<bufVars, dbVars, fphase, fidx, fused, issued, readVars, n_fail,
                   outsideClose>>

\* close() when the _flush_loop task has ended with an exception: cancel() does
\* nothing and "await self._flush_task" raises what the task raised, out of
\* stop() and close(), before the last flush
CloseCallRaise ==
    /\ close_pc = "idle"
    /\ fpc["timer"] \in {"error", "dead"}
    /\ close_pc' = "raised"
    /\ fpc' = [fpc EXCEPT !["timer"] = "dead"]
    /\ UNCHANGED <<bufVars, dbVars, fphase, fidx, fused, issued, readVars, txnVars,
                   outsideClose>>

\* the last flush of stop(): commit() returned, flush() runs self._clear(),
\* stop() returns and close() reaches "await self._conn.close()"
CloseFlushDone ==
    /\ close_pc = "flush"
    /\ fpc["stop"] = "commit"
    /\ close_pc' = "conn_close"
    /\ fpc' = [fpc EXCEPT !["stop"] = "idle"]
    /\ room_danmu_count' = <<>>
    /\ user_danmu_count' = <<>>
    /\ room_danmu_texts' = <<>>
    /\ room_danmu_times' = <<>>
    /\ UNCHANGED <<dbVars, fphase, fidx, fused, issued, readVars, outsideClose>>
    /\ CommitAll

\* the connection is closed: "self._conn = None", close() returns
CloseConn ==
    /\ close_pc = "conn_close"
    /\ close_pc' = "closed"
    /\ UNCHANGED <<statsVars, outsideClose>>

\* increments, the periodic flush with commits that can fail, and one close()
NextClose ==
    \/ \E u \in Uids : IncrBeforeClose(u)
    \/ TimerFlush
    \/ CloseCall
    \/ CloseCallRaise
    \/ FlushStep("stop")
    \/ CloseFlushDone
    \/ CloseConn

SpecClose == Init /\ [][NextClose]_vars

\* add-monitor and remove-monitor requests
SpecAdd == Init /\ [][NextAdd]_vars

\* binary messages that hold one malformed frame: a frame cut inside its
\* header, and a compressed frame whose content does not decompress
MalformedMessages ==
    {SubSeq(f, 1, n) : f \in SampleFrames, n \in 1..(HEADER_LEN - 1)}
      \cup {Frame(2, MESSAGE, <<1, 2, 3>>), Frame(3, MESSAGE, <<1, 2, 3>>)}

\* "await self._parse_packet(msg.data)" raises on a malformed message: the
\* exception leaves the "async for", is logged by "except Exception", and the
\* finally block runs; the socket is not touched
RecvBadFrame(k) ==
    /\ rl[k] = "recv"
    /\ sock[rlSock[k]] = "open"
    /\ \E d \in MalformedMessages : ParsePacket(d).kind = "error"
    /\ RecvFinally(k)
    /\ UNCHANGED <<auth_event, ws, session, heartbeat_task, callVars, netVars,
                   rlSock, hb, owner, discVars, obsVars, otherVars>>

\* one LIVE event for a room that is not live, with chat messages counted and
\* the periodic flush running before, during and after its handler
NextSession ==
    \/ \E u \in Uids : IncrDanmu(u)
    \/ FlushStart("timer")
    \/ FlushStep("timer")
    \/ FlushCommit("timer")
    \/ FlushRaise("timer")
    \/ LiveDispatch(1)
    \/ LiveBegin(1)
    \/ LiveStatusRead(1)
    \/ LiveEndTimeRead(1)
    \/ LiveStatusSet(1)
    \/ LiveStartHttp(1)
    \/ LiveStartSet(1)
    \/ LiveResetDone(1)
    \/ LiveInfoDone(1)
    \/ LiveSessionCreated(1)
    \/ LiveCallbackInfo(1)
    \/ LiveCallbackInfoFail(1)
    \/ LiveNotified(1)

SpecSession == Init /\ [][NextSession]_vars

\* a chat message is counted while no flush is in progress
IncrBeforeFlush(u) ==
    /\ NoFlushActive
    /\ IncrDanmu(u)

\* increments, then a flush that runs alone, and so on
NextSequential ==
    \/ \E u \in Uids : IncrBeforeFlush(u)
    \/ FlushStart("timer")
    \/ FlushStep("timer")
    \/ FlushCommit("timer")

SpecSequential == Init /\ [][NextSequential]_vars

\* flush() is called while no other flush is in progress
FlushAlone(f) ==
    /\ NoFlushActive
    /\ FlushStart(f)

\* increments and flushes that run one at a time, with commits that can fail
NextFail ==
    \/ \E u \in Uids : IncrBeforeFlush(u)
    \/ \E f \in Flushers : FlushAlone(f)
    \/ \E f \in Flushers : FlushStep(f)
    \/ \E f \in Flushers : FlushCommit(f)
    \/ \E f \in Flushers : FlushCommitFail(f)
    \/ \E f \in Flushers : FlushRaise(f)

SpecFail == Init /\ [][NextFail]_vars

\* the periodic flush alone, with commits that can fail: no read path, no stop()
NextTimer ==
    \/ \E u \in Uids : IncrBeforeFlush(u)
    \/ FlushStart("timer")
    \/ FlushStep("timer")
    \/ FlushCommit("timer")
    \/ FlushCommitFail("timer")
    \/ FlushRaise("timer")

\* the _flush_loop task is scheduled whenever it can run: its sleep ends, its
\* statements and its commit return, an exception propagates
FairTimer ==
    /\ WF_vars(FlushStart("timer"))
    /\ WF_vars(FlushStep("timer"))
    /\ WF_vars(FlushCommit("timer") \/ FlushCommitFail("timer"))
    /\ WF_vars(FlushRaise("timer"))

SpecTimer == Init /\ [][NextTimer]_vars /\ FairTimer

SpecLive == InitRoom /\ [][NextLive]_vars

SpecStats == Init /\ [][NextStats]_vars

Next ==
    \/ OwnerConnect
    \/ \E c \in ConnIds : ConnectRoomInfo(c)
    \/ \E c \in ConnIds : ConnectChatConf(c)
    \/ \E c \in ConnIds : ConnectHttpFail(c)
    \/ \E c \in ConnIds : ConnectSockFail(c)
    \/ \E c \in ConnIds : ConnectRaise(c)
    \/ \E c \in ConnIds : ConnectWs(c)
    \/ \E c \in ConnIds : ConnectAuth(c)
    \/ \E k \in ConnIds : HbFirst(k)
    \/ \E k \in ConnIds : HbWake(k)
    \/ \E k \in ConnIds : RlStart(k)
    \/ \E k \in ConnIds : RecvAck(k)
    \/ \E k \in ConnIds : RecvUnexpectedClose(k)
    \/ \E k \in ConnIds : RecvLocalClose(k)
    \/ \E k \in ConnIds : RlReconnect(k)
    \/ DisconnectCall
    \/ DisconnectAwaitHb
    \/ DisconnectCloseSession
    \/ DisconnectFinish

Spec == Init /\ [][Next]_vars

\* the steps of the client itself are taken whenever they can be: an HTTP
\* call or a socket open returns or fails, a created task starts, a sleep
\* ends, a close completes. Nothing obliges the owner to call connect() or
\* disconnect(), nor the service to acknowledge or to close.
FairClient ==
    /\ \A c \in ConnIds :
         /\ WF_vars(ConnectRoomInfo(c) \/ ConnectChatConf(c) \/ ConnectHttpFail(c))
         /\ WF_vars(ConnectWs(c) \/ ConnectAuth(c) \/ ConnectSockFail(c))
         /\ WF_vars(ConnectRaise(c))
         /\ WF_vars(HbFirst(c))
         /\ WF_vars(HbWake(c))
         /\ WF_vars(RlStart(c))
         /\ WF_vars(RecvLocalClose(c))
         /\ WF_vars(RlReconnect(c))
    /\ WF_vars(DisconnectAwaitHb)
    /\ WF_vars(DisconnectCloseSession)
    /\ WF_vars(DisconnectFinish)

SpecClientFair == Init /\ [][Next]_vars /\ FairClient

\* the client receiving malformed messages too
NextFrames ==
    \/ Next
    \/ \E k \in ConnIds : RecvBadFrame(k)

SpecFrames == Init /\ [][NextFrames]_vars

\* ------------------------------------------------------- claims: the client

\* C4: a heartbeat frame is only ever sent on a socket whose connect-ack the
\* client has already received, on the first connection and on every later one.
C4_NoHeartbeatBeforeAck == hbLast # <<>> => hbLast[2]

\* a heartbeat was sent on the socket of a reconnection, after its connect-ack
C4_Witness == hbLast # <<>> /\ hbLast[1] >= 2 /\ hbLast[2]

\* C5: whenever the client is Authenticated (and its owner has not called
\* disconnect()) a heartbeat loop is alive: waiting for the gate or between two
\* heartbeats.
C5_HeartbeatWhileAuthenticated ==
    (status = 2 /\ owner # "removed") => \E k \in ConnIds : hb[k] \in HbAlive

\* C6: a receive loop that ends while the status is 2 sets the status to 0 and
\* cools down; when the cool-down is over it calls connect(), which starts the
\* handshake from its first step; and a connect() that completes has resolved
\* the room, fetched hosts and token, chosen a host, opened a socket and sent
\* the auth frame, in this order.
C6_ReconnectAfterUnexpectedClose ==
    [][ /\ \A k \in ConnIds :
             (rl[k] = "recv" /\ rl'[k] # "recv" /\ status = 2)
                => (status' = 0 /\ rl'[k] = "cooldown")
        /\ \A k \in ConnIds :
             (rl[k] = "cooldown" /\ rl'[k] # "cooldown")
                => IF status = 0
                     THEN /\ rl'[k] = "connecting"
                          /\ status' = 1
                          /\ nextConn' = nextConn + 1
                          /\ corigin'[nextConn] = k
                          /\ cpc'[nextConn] = "room"
                          /\ hs'[nextConn] = <<>>
                     ELSE rl'[k] = "done"
        /\ \A c \in ConnIds :
             (cpc[c] # "done" /\ cpc'[c] = "done") => hs'[c] = FullHandshake
      ]_vars

\* a connect() called by a receive loop after its cool-down has completed
C6_Witness ==
    \E c \in ConnIds : corigin[c] # 0 /\ cpc[c] = "done" /\ hs[c] = FullHandshake

\* C7: once a reconnect attempt has failed (its connect() raised), a further
\* attempt is pending: some receive loop is cooling down or connecting.
C7_FailedReconnectIsRetried ==
    (\E c \in ConnIds : corigin[c] # 0 /\ cpc[c] = "raised")
        => \E k \in ConnIds : rl[k] \in {"cooldown", "connecting"}

\* C8: a receive loop that was cooling down when disconnect() was called never
\* calls connect(), and the client is idle.
C8_DisconnectInterruptsCooldown ==
    \A k \in discCool :
        /\ ~ \E c \in ConnIds : cpc[c] # "none" /\ corigin[c] = k
        /\ status = 0

\* C9: disconnect() called with status 2 sets status 3 and cancels the heartbeat
\* task; when it returns the status is 0, the heartbeat task it awaited has ended
\* and the socket is closed; and the receive loop of that socket never cools
\* down for a reconnect.
C9_DisconnectWhenAuthenticated ==
    [][ /\ (dpc = "idle" /\ dpc' # "idle" /\ status = 2)
             => /\ status' = 3
                /\ hb'[heartbeat_task] \notin HbAlive
        /\ (dFrom' = 2 /\ dpc # "done" /\ dpc' = "done")
             => /\ status' = 0
                /\ sock'[dWs'] \notin {"none", "open"}
                /\ hb'[dHb'] \notin HbAlive
        /\ dFrom' = 2
             => \A k \in ConnIds :
                   rlSock'[k] = dWs' => rl'[k] \notin {"cooldown", "connecting"}
      ]_vars

\* disconnect() called with status 2 has returned: heartbeat task cancelled,
\* socket closed, receive loop ended, status 0
C9_Witness ==
    /\ dFrom = 2 /\ dpc = "done" /\ status = 0
    /\ hb[dHb] = "cancelled"
    /\ sock[dWs] = "closed"
    /\ \E k \in ConnIds : rlSock[k] = dWs /\ rl[k] = "done"

\* C10: after the owner's connect() raised because resolving the room or
\* fetching hosts and token failed (or the host list was empty), the status is
\* 0, no task of the client exists and connect() is never called again.
C10_InitialConnectFailure ==
    \A c \in ConnIds :
        (corigin[c] = 0 /\ cpc[c] = "raised" /\ cfail[c] = "http")
            => /\ status = 0
               /\ owner = "failed"
               /\ nextConn = c + 1
               /\ \A k \in ConnIds : rl[k] = "none" /\ hb[k] = "none"

\* the owner's connect() has raised on an HTTP failure
C10_Witness ==
    \E c \in ConnIds : corigin[c] = 0 /\ cpc[c] = "raised" /\ cfail[c] = "http"

\* -------------------------------------------------- claims: the stats buffer
\* C1: no increment is cleared without being written: whenever no flush is in
\* progress, every incr_danmu() call so far is counted in the store or is still
\* in the buffer.
C1_IncrementDuringFlushKept ==
    NoFlushActive => db_danmu_count + DictSum(room_danmu_count) >= TotalIssued

\* C2: no buffered delta is applied twice: the stored chat count never exceeds
\* the number of incr_danmu() calls, whatever the interleaving of the timer
\* flush and the flush forced by a read path.
C2_DeltaAppliedOnce == db_danmu_count <= TotalIssued

\* handlers that got past both checks of the flag and read the persisted status
LivePastGate == {h \in LiveIds : lpc[h] \notin {"none", "start", "wait_lock", "skipped"}}

\* C3: LIVE events handled close together, concurrent handler tasks included,
\* make at most one reset, one create_session call and one on_live_start call,
\* and only one handler gets past the flag; once all handlers have returned
\* and the event was a genuine start (not already live in the store, not a
\* reconnect echo, room info for the callback fetched) there is exactly one of
\* each and every other handler skipped.
C3_OneLiveStart ==
    /\ n_reset <= 1 /\ n_create <= 1 /\ n_notify <= 1
    /\ Cardinality(LivePastGate) <= 1
    /\ ( /\ \A h \in LiveIds : lpc[h] \in LiveFinal
         /\ \A h \in LiveIds : lpc[h] \notin {"persisted", "echoed", "cb_failed"} )
       => /\ n_reset = 1 /\ n_create = 1 /\ n_notify = 1
          /\ Cardinality({h \in LiveIds : lpc[h] = "started"}) = 1

\* two handlers ran: one made the session start, the other one skipped
C3_Witness ==
    /\ \E h \in LiveIds : lpc[h] = "started"
    /\ \E g \in LiveIds : lpc[g] = "skipped"
    /\ n_reset = 1 /\ n_create = 1 /\ n_notify = 1

\* ---------------------------------------------------- claims: live-end dedup
\* C11: PREPARING events for a live room, concurrent handler tasks included,
\* make at most one end_session call and at most one on_live_end call.
C11_OneLiveEnd == n_end <= 1 /\ n_live_end <= 1

\* ------------------------------------------------- claims: reconnect echo
\* the previous session ended, and the last live-start push was made, at most
\* RECONNECT_THRESHOLD seconds before the time handler h took for its event
EchoWindow(h) ==
    /\ db_live_end_time > 0
    /\ lnow[h] - db_live_end_time <= RECONNECT_THRESHOLD
    /\ last_live_push_time > 0
    /\ lnow[h] - last_live_push_time <= RECONNECT_THRESHOLD

\* C12: a LIVE event handled inside the echo window sets the persisted status
\* to live and goes no further: the handler makes no reset, no create_session
\* and no on_live_start call, neither in that step nor later.
C12_ReconnectEchoSuppressed ==
    /\ [][ \A h \in LiveIds :
             /\ (lpc[h] = "end_time" /\ lpc'[h] # "end_time" /\ EchoWindow(h))
                  => /\ lpc'[h] = "echo_set"
                     /\ db_live_status' = 1
                     /\ callCountVars' = callCountVars
             /\ lpc[h] \in {"echo_set", "echoed"}
                  => /\ lpc'[h] \in {"echo_set", "echoed"}
                     /\ callCountVars' = callCountVars ]_vars
    /\ []( (\E h \in LiveIds : lpc[h] \in {"echo_set", "echoed"})
             => db_live_status = 1 /\ n_reset = 0 /\ n_create = 0 /\ n_notify = 0 )

\* an event was handled as an echo while a second handler ran too
C12_Witness ==
    /\ \E h \in LiveIds : lpc[h] = "echoed" /\ EchoWindow(h)
    /\ \E g \in LiveIds : lpc[g] = "skipped"
    /\ db_live_status = 1 /\ n_create = 0 /\ n_notify = 0

\* ------------------------------------------------- claims: session metrics
\* C13: when the live-start of the one LIVE event has been handled and no chat
\* message was counted since the event was dispatched, the store holds nothing
\* for the room: no chat count, no per-user count, no text, no time sample.
C13_NoBleedAcrossSessions ==
    (lpc[1] \in {"started", "cb_failed"} /\ TotalIssued = lseen[1])
      => /\ db_danmu_count = 0
         /\ \A u \in 1..NumUsers : db_user_danmu[u] = 0
         /\ db_texts = 0
         /\ db_times = 0

\* ------------------------------------------------ claims: chat increments
BufferEmpty ==
    /\ room_danmu_count = <<>>
    /\ user_danmu_count = <<>>
    /\ room_danmu_texts = <<>>
    /\ room_danmu_times = <<>>

AfterFlush == fpc["timer"] = "idle" /\ BufferEmpty

StoredUserTotal == SumTo(db_user_danmu, NumUsers)

\* C14 as stated: after the flush the room chat count is the number N of
\* increments and the per-user chat counts sum to N, whatever the user ids.
C14_UserCountsSumToN ==
    AfterFlush => db_danmu_count = TotalIssued /\ StoredUserTotal = TotalIssued

\* C14: after the flush the room chat count is the number N of increments and
\* the per-user chat counts sum to the number of increments made with a user
\* id other than 0; each user's count is the number of that user's increments.
C14_CountsAfterFlush ==
    AfterFlush =>
      /\ db_danmu_count = TotalIssued
      /\ StoredUserTotal = TotalIssued - issued[0]
      /\ \A u \in 1..NumUsers : db_user_danmu[u] = issued[u]

\* MaxIncr increments, by the anonymous sender and by a user, are flushed
C14_Witness ==
    /\ AfterFlush
    /\ TotalIssued = MaxIncr
    /\ issued[0] > 0
    /\ \E u \in 1..NumUsers : issued[u] > 0
    /\ db_danmu_count = MaxIncr

\* ----------------------------------------------------- claims: read paths
\* C15: the chat count a read path returns includes every increment issued
\* before the read was invoked.
C15_ReadIncludesIssued == rval # NoValue => rval >= rseen

\* -------------------------------------------------- claims: commit failure
\* C16: when the commit of a periodic flush has failed (the failure ended the
\* _flush_loop task) and a later flush has succeeded and emptied the buffer,
\* every increment issued so far is in the store exactly once.
C16_FailedFlushAppliedOnce ==
    (fpc["timer"] = "dead" /\ NoFlushActive /\ BufferEmpty)
      => db_danmu_count = TotalIssued /\ committed.danmu = TotalIssued

\* ------------------------------------------------ claims: malformed frames
\* C17: a malformed frame inside a binary message is handled locally: the
\* receive loop goes on reading (it ends only when its socket is no longer
\* open) and no reconnect follows.
C17_BadFrameKeepsLoop ==
    [][\A k \in ConnIds :
         (rl[k] = "recv" /\ rl'[k] # "recv") => sock'[rlSock[k]] # "open"]_vars

\* C18: decoding a message whose trailing frame is cut, inside its header or
\* inside its body, ends with an error, and the events dispatched are those of
\* the complete frames before it.
C18_TruncatedFrameIsError ==
    (parsed # NoResult /\ incut # "none")
      => parsed.kind = "error" /\ parsed.events = inexpect

\* ------------------------------------------------------- claims: dispatch
TasksOf(d) == {t \in 1..Len(tasks) : tasks[t].d = d}

\* C19: dispatch(name, payload) starts one task for every handler registered
\* for name; a handler that fails changes neither the task of any other
\* handler nor the receive loop, and every handler not yet run can still run.
C19_DispatchIsolatesHandlers ==
    /\ [](\A d \in 1..Len(dispatched) :
            /\ Cardinality(TasksOf(d)) = dispatched[d].n
            /\ {tasks[t].h : t \in TasksOf(d)} = 1..dispatched[d].n)
    /\ [](\A t \in 1..Len(tasks) : tasks[t].st = "pending" => ENABLED TaskDone(t))
    /\ [][\A t \in 1..Len(tasks) :
            (tasks[t].st = "pending" /\ tasks'[t].st = "failed")
              => /\ dloop' = dloop
                 /\ \A u \in 1..Len(tasks) : u # t => tasks'[u] = tasks[u]]_vars

\* one handler of a dispatch failed, a sibling ran to its end afterwards or
\* before, and the receive loop is still receiving
C19_Witness ==
    \E t, u \in 1..Len(tasks) :
        /\ t # u
        /\ tasks[t].d = tasks[u].d
        /\ tasks[t].st = "failed"
        /\ tasks[u].st = "done"
        /\ dloop = "recv"

\* ------------------------------------------------- claims: one connection
\* C20: for every room at most one connected client exists, and it is the
\* client of the RoomMonitor registered in monitors for that room.
C20_OneClientPerRoom ==
    \A uid \in RoomUids :
        LET connected == {r \in AddIds : auid[r] = uid /\ mclient[r] = "connected"}
        IN /\ Cardinality(connected) <= 1
           /\ \A r \in connected : monitors[uid] = r

\* ------------------------------------------------------ claims: round trip
\* C21: the encoder's frame has a 16-byte big-endian header (total length 16 +
\* body length, header length 16, version 1, the operation code, sequence 1),
\* and decoding it yields exactly one frame with the same operation and body.
C21_RoundTrip ==
    /\ wire # <<>> =>
         SubSeq(wire, 1, HEADER_LEN) =
           U32(16 + Len(sent_body)) \o U16(16) \o U16(1) \o U32(sent_op) \o U32(1)
    /\ frames # NoFrames =>
         /\ frames.kind = "ok"
         /\ Len(frames.frames) = 1
         /\ frames.frames[1].operation = sent_op
         /\ frames.frames[1].body = sent_body

\* a message frame with a payload of MaxBody bytes was sent and decoded
C21_Witness ==
    /\ frames # NoFrames
    /\ sent_op = MESSAGE
    /\ Len(sent_body) = MaxBody

\* ------------------------------------------------ claims: nested frames
\* C22: a zlib message frame wrapping a Brotli message frame wrapping a plain
\* JSON message frame decodes to the event of the plain frame alone (same
\* name, same payload), dispatched once.
C22_NestedSameEvent ==
    (parsed # NoResult /\ inchain = <<2, 3>>) =>
        /\ parsed.kind = "ok"
        /\ Len(parsed.events) = 1
        /\ parsed.events = inexpect
        /\ \E cmd \in Cmds :
             /\ inbuf = Wrap(<<2, 3>>, PlainFrame(cmd))
             /\ parsed = ParsePacket(PlainFrame(cmd))

\* a zlib frame around a Brotli frame around a plain frame was decoded
C22_Witness ==
    /\ parsed # NoResult
    /\ inchain = <<2, 3>>
    /\ inbuf # PlainFrame(LIVE)
    /\ inexpect = <<[name |-> "MESSAGE", v |-> LIVE]>>

\* C26: a compressed frame nested deeper than the cap (4) is a decode error
\* and is not decompressed and recursed into: no event comes out of it.
C26_DepthCapped ==
    (parsed # NoResult /\ Len(inchain) > 4) =>
        /\ parsed.kind = "error"
        /\ parsed.events = <<>>

\* ---------------------------------------------------- claims: termination
\* C25: decoding terminates on every finite buffer, also when a header declares
\* a total length of 0 or any length smaller than the header.
C25_DecodingTerminates ==
    parsed # NoResult => parsed.kind # "hang"

\* --------------------------------------------------------- claims: ranking
\* the rows of the room queried, as (uid, value) pairs
RoomPairs == {<<r.uid, r.value>> : r \in {x \in rk_rows : x.room = rk_room}}

TableTransitions == {<<0, 1>>, <<1, 2>>, <<2, 0>>, <<2, 3>>, <<3, 0>>, <<1, 0>>}

\* C24: every change of the connection status follows the transition table;
\* in particular a connect-ack makes the client Authenticated (2) only from
\* Connecting (1), never from Idle (0) or Disconnecting (3).
C24_StatusFollowsTable ==
    [][status' # status => <<status, status'>> \in TableTransitions]_vars

\* ------------------------------------------------- claims: periodic flush
\* C27: the periodic flush goes on after a flush that failed, so every
\* increment is eventually committed to the store without a read.
C27_EveryIncrementCommitted ==
    \A n \in 1..MaxIncr : [](TotalIssued >= n => <>(committed.danmu >= n))

\* ---------------------------------------------------- claims: open sessions
\* no action of SpecRestart calls end_session, so every session created there
\* is an open one (end_time = 0)
OpenSessions == n_create

\* C28: a room has at most one open session record in every reachable state.
C28_OneOpenSession ==
    OpenSessions <= 1

\* ------------------------------------------------------ claims: box series
\* C29: the box-profit series of the session, stored rows followed by the
\* buffered ones, is the sequence of prefix sums of all box profit deltas,
\* also when an earlier flush committed the prior total.
C29_SeriesIsPrefixSums ==
    db_box_profit_records \o room_box_profit_records = PrefixSums(box_deltas)

\* --------------------------------------------------- claims: genuine start
\* C30: a LIVE event (persisted status not live) is suppressed as an echo only
\* inside the echo window; outside it the handler sets the status to live and
\* takes the start path, and when it has returned the counters were reset, the
\* session was created and the notification was made (the notification is
\* left out only when fetching the room info for it failed).
C30_SuppressedOnlyInWindow ==
    /\ [][ \A h \in LiveIds :
             (lpc[h] = "end_time" /\ lpc'[h] # "end_time" /\ ~EchoWindow(h))
               => /\ lpc'[h] = "set_status"
                  /\ db_live_status' = 1 ]_vars
    /\ []( \A h \in LiveIds :
             /\ lpc[h] \in {"echo_set", "echoed"} => EchoWindow(h)
             /\ lpc[h] \in {"started", "cb_failed"}
                  => db_live_status = 1 /\ n_reset >= 1 /\ n_create >= 1
             /\ lpc[h] = "started" => n_notify >= 1 )

\* a genuine start although the previous end was inside the window: the last
\* push was not
C30_Witness ==
    \E h \in LiveIds :
        /\ lpc[h] = "started"
        /\ db_live_end_time > 0
        /\ lnow[h] - db_live_end_time <= RECONNECT_THRESHOLD
        /\ n_reset = 1 /\ n_create = 1 /\ n_notify = 1

\* C31: a LIVE handler that reads a persisted status of 1 (the in-memory flag
\* was false, as after a process restart) sets the in-memory flag and returns:
\* in that step it calls no reset_room_stats, create_session or on_live_start
\* and changes nothing of the persisted row, and it takes no step after it
C31_PersistedStatusDedups ==
    [][\A h \in LiveIds :
         /\ (lpc[h] = "status" /\ lstat[h] = 1 /\ lpc'[h] # lpc[h]) =>
              /\ lpc'[h] = "persisted"
              /\ is_live'
              /\ UNCHANGED <<callCountVars, liveDbVars, last_live_push_time>>
         /\ lpc[h] = "persisted" => lpc'[h] = "persisted"]_vars

\* the first LIVE event after a start with a persisted status of 1 was handled
C31_Witness ==
    \E h \in LiveIds :
        /\ lpc[h] = "persisted"
        /\ is_live
        /\ db_live_status = 1
        /\ n_reset = 0 /\ n_create = 0 /\ n_notify = 0

\* C32: the dispatch() calls made are, in order, the events of the frames in
\* the order the service sent them (the frames inside a compressed frame at
\* the place of that frame), and of two tasks of one dispatch() call the one
\* whose handler was registered first is created first and starts first
C32_ArrivalAndRegistrationOrder ==
    /\ [i \in 1..Len(dispatched) |-> dispatched[i].event] = Concat(rx_sent)
    /\ \A i, j \in 1..Len(tasks) :
         (i < j) => \/ tasks[i].d < tasks[j].d
                    \/ tasks[i].d = tasks[j].d /\ tasks[i].h < tasks[j].h
    /\ \A i, j \in 1..Len(started) :
         (i < j /\ tasks[started[i]].d = tasks[started[j]].d)
            => tasks[started[i]].h < tasks[started[j]].h

\* two messages inside a compressed frame and one after it were dispatched to
\* two handlers each, and every task has started
C32_Witness ==
    /\ Len(dispatched) = 3
    /\ dispatched[1].event # dispatched[2].event
    /\ \A i \in 1..3 : dispatched[i].n = 2
    /\ Len(started) = 6

\* ------------------------------------------------------ claims: blind box
\* the step handles a blind-box event with box price 500, unit price 800 and
\* quantity 1
BlindBoxStep ==
    /\ gift_event'.n = gift_event.n + 1
    /\ gift_event'.blind
    /\ gift_event'.total_coin = 500
    /\ gift_event'.discount_price = 800
    /\ gift_event'.num = 1

\* C33 as stated: a blind-box event with paid box price 500, revealed unit
\* price 800 and quantity 1 records a box count of 1 and a box-profit delta
\* of 3.0 (30 tenths) for the room and for the user.
C33_BoxProfitThree ==
    [][BlindBoxStep =>
         /\ room_box_count' = room_box_count + 1
         /\ user_box_count'[gift_event'.uid] = user_box_count[gift_event'.uid] + 1
         /\ room_box_profit' = room_box_profit + 30
         /\ user_box_profit'[gift_event'.uid] = user_box_profit[gift_event'.uid] + 30]_vars

\* C33, amended: such an event records a box count of 1 and a box-profit
\* delta of 0.3 (3 tenths) for the room and for the user, and of no other user.
C33_BoxProfitThreeTenths ==
    [][BlindBoxStep =>
         /\ room_box_count' = room_box_count + 1
         /\ room_box_profit' = room_box_profit + 3
         /\ \A u \in GiftUids :
              LET mine == IF u = gift_event'.uid THEN 1 ELSE 0
              IN /\ user_box_count'[u] = user_box_count[u] + mine
                 /\ user_box_profit'[u] = user_box_profit[u] + 3 * mine]_vars

\* the event was the first one handled
C33_Witness ==
    /\ gift_event.n = 1
    /\ gift_event.blind /\ gift_event.total_coin = 500
    /\ gift_event.discount_price = 800 /\ gift_event.num = 1
    /\ room_box_count = 1 /\ room_box_profit = 3
    /\ user_box_count[gift_event.uid] = 1 /\ user_box_profit[gift_event.uid] = 3

\* ------------------------------------------------ claims: LIVE, PREPARING
\* the handler task of the PREPARING event has completed
OffFinal == {"skipped", "ended"}

\* C34: when the handler tasks of a LIVE frame and of the PREPARING frame that
\* followed it have both completed, the room is recorded as not live: the
\* persisted status is 0 and the in-memory flag is false.
C34_LiveThenPreparingEndsNotLive ==
    (lpc[1] \in LiveFinal /\ opc[1] \in OffFinal)
       => (db_live_status = 0 /\ ~is_live)

\* ------------------------------------------- claims: flag and persisted status
\* no live-start or live-end handler task exists that has not ended
NoHandlerInProgress ==
    /\ \A h \in LiveIds : lpc[h] \in {"none", "aborted"} \cup LiveFinal
    /\ \A h \in OffIds : opc[h] \in {"none"} \cup OffFinal

\* C35: whenever no live-start or live-end handler is in progress, the
\* in-memory flag is true exactly when the persisted status is 1, also after a
\* handler was ended by a storage error.
C35_FlagMatchesPersisted ==
    NoHandlerInProgress => (is_live <=> db_live_status = 1)

\* ------------------------------------------- claims: close before the ack
\* the socket of a receive loop closed or errored after the auth frame was
\* sent and before the connect-ack was received, and the status is Connecting
ClosedBeforeAck ==
    /\ status = 1
    /\ \E k \in ConnIds :
         /\ rl[k] = "done"
         /\ rlSock[k] # 0
         /\ sock[rlSock[k]] = "dead"
         /\ authSent[rlSock[k]]
         /\ ~acked[rlSock[k]]

\* C36: when the socket closed or errored before the connect-ack, the client
\* does not stay in Connecting forever: its status eventually leaves 1.
C36_NotStuckConnecting ==
    [](ClosedBeforeAck => <>(status # 1))

\* ------------------------------------------------ claims: after disconnect()
\* the owner's disconnect() call has returned
DisconnectReturned ==
    /\ owner = "removed"
    /\ dpc \in {"idle", "done"}

\* C37: in a step taken after disconnect() has returned, and with no connect()
\* invoked since disconnect() was called, the client does not become
\* Connecting or Authenticated and no receive or heartbeat task is created.
C37_QuietAfterDisconnect ==
    [][(DisconnectReturned /\ nextConn' = discConn) =>
         /\ status' \notin {1, 2}
         /\ \A k \in ConnIds :
              /\ rl'[k] = "created" => rl[k] = "created"
              /\ hb'[k] = "created" => hb[k] = "created"]_vars

\* -------------------------------------------------- claims: heartbeat loops
\* the heartbeat loops that are alive: waiting for the authentication event,
\* or sending and sleeping between two heartbeats (a task that was created and
\* has not run yet is in neither)
AliveHeartbeats == {k \in ConnIds : hb[k] \in {"wait", "sleep"}}

\* C38: at most one heartbeat loop of the client is alive in every reachable
\* state, over connects, unexpected closes, automatic reconnects and disconnects.
C38_OneHeartbeatLoop ==
    Cardinality(AliveHeartbeats) <= 1

\* after an unexpected close and an automatic reconnect that was acknowledged
\* the heartbeat loop of the first connection is the one alive, the task of the
\* reconnect having ended at its first step
C38_Witness ==
    \E j, k \in ConnIds :
        /\ hb[j] = "sleep"
        /\ corigin[k] # 0 /\ cpc[k] = "done" /\ hb[k] = "done"
        /\ acked[k]
        /\ status = 2

\* ------------------------------------------------ claims: sockets, sessions
\* the HTTP sessions and the sockets of the client that are open
OpenSessionsOfClient == {c \in ConnIds : sess[c] = "open"}
OpenSockets == {c \in ConnIds : sock[c] = "open"}

\* C39: the client holds at most one open HTTP session and at most one open
\* socket in every reachable state: when a connect() opens new ones, those of
\* the previous connection have been closed.
C39_OneSocketAndSession ==
    /\ Cardinality(OpenSessionsOfClient) <= 1
    /\ Cardinality(OpenSockets) <= 1

\* ------------------------------------------------------- claims: close()
\* the store holds every increment issued, once
CommittedOnce ==
    committed = Tables(TotalIssued, [u \in 1..NumUsers |-> issued[u]],
                       TotalIssued, TotalIssued)

\* C40: after close() has completed, every increment issued before it has been
\* committed to the store exactly once and the buffer is empty, also when
\* stop() cancelled the periodic flush in the middle of its writes.
C40_CloseCommitsOnce ==
    close_pc = "closed" => CommittedOnce /\ BufferEmpty

====
